---- MODULE Spec2Model ----
(***************************************************************************)
(* napari-mobilesam: the model wrapper (mobilesam_wrapper.py) and the      *)
(* widget controller (_widget.py) as a state machine.                      *)
(*                                                                         *)
(* Conventions                                                             *)
(*  - Python None is the string "None" for image_embeddings, image 0 for   *)
(*    an image reference, and a wrapper record with exists = FALSE for     *)
(*    widget.model.                                                        *)
(*  - An image is an identifier in Images; every image and every mask has  *)
(*    the same shape, the pixel set Pix.  A binary mask is the set of its  *)
(*    pixels that are 1.                                                   *)
(*  - lastCall / lastOp record the most recent call of the wrapper and the *)
(*    most recent widget handler, with what it did; they are observations, *)
(*    no handler reads them.                                               *)
(***************************************************************************)
EXTENDS Integers, Sequences, FiniteSets, TLC

\* ---------------------------------------------------------------- bounds
NImages == 2
W == 2
MaxLabelId == 2
MaxLoads == 2
MaxShapes == 2
MultiCands == 2

Images == 1..NImages
Pix == 1..W
Devices == {"cpu", "cuda", "mps"}
UserNames == {"a", "b"}

VARIABLES
    model,                 \* widget.model / the wrapper under test
    lastCall,              \* the last call on the wrapper and how it ended; for a part
                           \* run on its own: its arguments, clock, timers and files
    model_loaded,          \* widget.model_loaded
    threads,               \* loader threads ever started; model_thread is the last
    signals,               \* finished/error signals queued for the GUI thread
    load_model_btn,        \* load_model_btn.isEnabled()
    load_custom_model_btn, \* load_custom_model_btn.isEnabled()
    current_image,         \* widget.current_image (0: None)
    image_files,           \* widget.image_files
    current_image_index,   \* widget.current_image_index
    shapes,                \* shape types of the Shapes layer, in order
    prediction_mode,       \* widget.prediction_mode
    result_masks,          \* widget.result_masks
    result_scores,         \* widget.result_scores
    selected_mask_idx,     \* widget.selected_mask_idx (0-based, as in the code)
    mask_layer,            \* the "MobileSAM mask" display layer
    add_to_labels_btn,     \* add_to_labels_btn.isEnabled(); the save buttons follow it
    erode_mask_btn,        \* erode_mask_btn / dilate_mask_btn.isEnabled()
    clear_labels_btn,      \* clear_labels_btn.isEnabled()
    labels_layer,          \* the label raster layer and its metadata
    label_names,           \* widget.label_names
    label_colors,          \* widget.label_colors
    next_label_id,         \* widget.next_label_id
    lastOp                 \* the last widget handler that ran

wrapperVars == <<model, lastCall>>
loadVars == <<model_loaded, threads, signals, load_model_btn,
              load_custom_model_btn>>
imageVars == <<current_image, image_files, current_image_index>>
predVars == <<shapes, prediction_mode, result_masks, result_scores,
              selected_mask_idx, mask_layer, add_to_labels_btn,
                   erode_mask_btn>>
labelVars == <<labels_layer, label_names, label_colors, next_label_id,
               clear_labels_btn>>
vars == <<model, lastCall, model_loaded, threads, signals, load_model_btn,
          load_custom_model_btn, current_image, image_files,
          current_image_index, shapes, prediction_mode,
          result_masks, result_scores, selected_mask_idx, mask_layer,
          add_to_labels_btn, erode_mask_btn, clear_labels_btn,
          labels_layer, label_names, label_colors, next_label_id, lastOp>>

\* ------------------------------------------------------- the model wrapper

\* widget.model = None
NoModel ==
    [exists |-> FALSE, image_embeddings |-> "None", current_image |-> 0,
     device |-> "cpu", features |-> 0, set_image_called |-> FALSE]

\* MobileSamWrapper.__init__ having ended on device d: the three fields set
\* at its end, and a predictor that holds no image features yet.
WrapperNew(d) ==
    [exists |-> TRUE, image_embeddings |-> "None", current_image |-> 0,
     device |-> d, features |-> 0, set_image_called |-> FALSE]

PredictFns == {"predict_from_points", "predict_from_box",
               "predict_from_box_and_points"}

\* Where set_image fails: nowhere; before the predictor is touched (None
\* image, copy or colour conversion); in the predictor's set_image; in the
\* predictor's set_image and again in the CPU retry of the MPS branch.
SetImageFaults == {"none", "pre", "predictor", "predictor_twice"}

\* MobileSamWrapper.set_image(image) with the fault f; keep says whether a
\* failing predictor.set_image left its old features in place (it fails
\* before its own reset) or dropped them.  Returns the wrapper afterwards
\* and whether ValueError was raised.
set_image(w, image, f, keep) ==
    LET called == [w EXCEPT !.set_image_called = TRUE] IN
    IF image = 0 \/ f = "pre"
    THEN [w |-> [called EXCEPT !.image_embeddings = "False"], raised |-> TRUE]
    ELSE IF w.device = "mps"
    THEN IF f = "none"
         THEN [w |-> [called EXCEPT !.current_image = image,
                                    !.features = image,
                                    !.image_embeddings = "True"],
               raised |-> FALSE]
         ELSE IF f = "predictor"
         THEN [w |-> [called EXCEPT !.current_image = image,
                                    !.device = "cpu",
                                    !.features = image,
                                    !.image_embeddings = "True"],
               raised |-> FALSE]
         ELSE [w |-> [called EXCEPT !.current_image = image,
                                    !.device = "cpu",
                                    !.features = 0,
                                    !.image_embeddings = "False"],
               raised |-> TRUE]
    ELSE IF f = "none"
         THEN [w |-> [called EXCEPT !.current_image = image,
                                    !.features = image,
                                    !.image_embeddings = "True"],
               raised |-> FALSE]
         ELSE [w |-> [called EXCEPT !.current_image = image,
                                    !.features = IF keep THEN w.features ELSE 0,
                                    !.image_embeddings = "False"],
               raised |-> TRUE]

\* A guard that tests the embedding for False instead of None.
EmbeddingTestedForFalse(w) == w.image_embeddings = "False"

\* The guard every predict variant starts with: image_embeddings is None.
EmbeddingMissing(w) == w.image_embeddings = "None"

\* A predict variant on wrapper w; boxOk: the box has shape (4,).  The result
\* names how the call ended and whether predictor.predict was called.
predict(w, fn, boxOk) ==
    IF EmbeddingMissing(w)
    THEN [fn |-> fn, result |-> "ValueError_set_image_first", forwarded |-> FALSE,
          fresh |-> ~w.set_image_called, emb |-> w.image_embeddings]
    ELSE IF fn # "predict_from_points" /\ ~boxOk
    THEN [fn |-> fn, result |-> "ValueError_box_shape", forwarded |-> FALSE,
          fresh |-> ~w.set_image_called, emb |-> w.image_embeddings]
    ELSE [fn |-> fn,
          result |-> IF w.features = 0 THEN "RuntimeError_predictor" ELSE "ok",
          forwarded |-> TRUE,
          fresh |-> ~w.set_image_called, emb |-> w.image_embeddings]

NoCall == [fn |-> "__init__", result |-> "ok", forwarded |-> FALSE,
           fresh |-> TRUE, emb |-> "None"]


\* ------------------------------------------------------------ data values

\* An array over the pixels holding 0 everywhere (np.zeros_like).
ZeroMask == [p \in Pix |-> 0]

\* An empty dict.
EmptyMap == [k \in {} |-> 0]

\* The values of a candidate mask: the predictor returns boolean arrays and
\* grow/shrink stores float32 0.0/1.0; a value is kept in tenths (10 = 1.0).
MaskValues == {0, 10}
CandidateMasks == [Pix -> MaskValues]

\* ------------------------------------------------------------ initial state

NoOp == [name |-> "__init__", arg |-> "", ok |-> TRUE, id |-> 0]

\* MobileSamWidget.__init__: the fields as assigned, the buttons as _init_ui
\* and the closing _load_model_async leave them, the first loader thread
\* started.
WidgetFields ==
    /\ model_loaded = FALSE
    /\ current_image = 0
    /\ image_files = <<>>
    /\ current_image_index = -1
    /\ shapes = [present |-> FALSE, own |-> FALSE, types |-> <<>>]
    /\ prediction_mode = "points"
    /\ result_masks = <<>>
    /\ result_scores = <<>>
    /\ selected_mask_idx = 0
    /\ mask_layer = [present |-> FALSE, data |-> ZeroMask]
    /\ add_to_labels_btn = FALSE
    /\ erode_mask_btn = FALSE
    /\ clear_labels_btn = FALSE
    /\ labels_layer = [present |-> FALSE, meta |-> FALSE, data |-> ZeroMask]
    /\ label_names = EmptyMap
    /\ label_colors = EmptyMap
    /\ next_label_id = 1
    /\ lastOp = NoOp

Init ==
    /\ WidgetFields
    /\ model = NoModel
    /\ lastCall = NoCall
    /\ threads = <<[st |-> "running", custom |-> FALSE]>>
    /\ signals = <<>>
    /\ load_model_btn = FALSE
    /\ load_custom_model_btn = FALSE

\* ------------------------------------------- the wrapper used on its own

\* A wrapper constructed directly (test_model.py, examples/demo.py): no
\* widget acts, its fields stay as constructed.
InitWrapper ==
    /\ WidgetFields
    /\ \E d \in Devices : model = WrapperNew(d)
    /\ lastCall = NoCall
    /\ threads = <<>>
    /\ signals = <<>>
    /\ load_model_btn = FALSE
    /\ load_custom_model_btn = TRUE

widgetVars == <<model_loaded, threads, signals, load_model_btn,
                load_custom_model_btn, current_image, image_files,
                current_image_index, shapes, prediction_mode, result_masks,
                result_scores, selected_mask_idx, mask_layer,
                add_to_labels_btn, erode_mask_btn, clear_labels_btn,
                labels_layer,
                label_names, label_colors, next_label_id, lastOp>>

\* model.set_image(image) called by a client of the wrapper.
WSetImage ==
    \E image \in {0} \cup Images, f \in SetImageFaults, keep \in BOOLEAN :
        LET r == set_image(model, image, f, keep) IN
        /\ model' = r.w
        /\ lastCall' = [fn |-> "set_image",
                        result |-> IF r.raised THEN "ValueError_set_image_failed"
                                   ELSE "ok",
                        forwarded |-> FALSE,
                        fresh |-> ~model.set_image_called,
                        emb |-> model.image_embeddings]
        /\ UNCHANGED widgetVars

\* One of the three predict variants called by a client of the wrapper.
WPredict ==
    \E fn \in PredictFns, boxOk \in BOOLEAN :
        /\ lastCall' = predict(model, fn, boxOk)
        /\ UNCHANGED model
        /\ UNCHANGED widgetVars

\* A client constructs a new wrapper in place of the old one.
WConstruct ==
    \E d \in Devices :
        /\ model' = WrapperNew(d)
        /\ lastCall' = NoCall
        /\ UNCHANGED widgetVars

NextWrapper == WSetImage \/ WPredict \/ WConstruct

SpecWrapper == InitWrapper /\ [][NextWrapper]_vars

\* C1 (as claimed): after a failed set_image (image_embeddings was set to
\* False by the failure path) every predict variant raises the wrapper's
\* "set the image first" error and does not call the underlying predictor.
C1_FailedSetImageThenPredictFailsFast ==
    (lastCall.fn \in PredictFns /\ model.image_embeddings = "False")
        => (lastCall.result = "ValueError_set_image_first" /\ ~lastCall.forwarded)

\* C2: on a wrapper on which set_image was never called, each predict
\* variant raises the "set the image first" error and never forwards the
\* prompt to the underlying predictor.
C2_FreshWrapperPredictRaises ==
    (lastCall.fn \in PredictFns /\ lastCall.fresh)
        => (lastCall.result = "ValueError_set_image_first" /\ ~lastCall.forwarded)

C2_Witness ==
    /\ lastCall.fn = "predict_from_box_and_points"
    /\ lastCall.fresh
    /\ ~model.set_image_called
    /\ lastCall.result = "ValueError_set_image_first"


\* ---------------------------------------------------------- viewer events

Max(S) == CHOOSE x \in S : \A y \in S : y <= x

\* _on_layer_change, run on every layer inserted into or removed from the
\* viewer, seen from the label state.  The metadata dicts of a label layer
\* that carries them are the dict objects the widget holds (add_labels and
\* the metadata update store the widget's own dicts), so re-reading them
\* changes neither map; what changes is the id counter and the buttons.
NextIdAfterLayerChange(ll, names, next) ==
    IF ll.present /\ ll.meta /\ DOMAIN names # {}
    THEN Max(DOMAIN names) + 1
    ELSE next

\* A layer other than the label layer was inserted or removed.
LayerEvent ==
    /\ next_label_id' = NextIdAfterLayerChange(labels_layer, label_names,
                                               next_label_id)
    /\ clear_labels_btn' = labels_layer.present
    /\ UNCHANGED <<labels_layer, label_names, label_colors>>

\* ------------------------------------------------------------ model loading

AliveThreads == {i \in DOMAIN threads : threads[i].st # "dead"}

\* self.model_thread is not None and self.model_thread.is_alive()
ModelThreadAlive ==
    Len(threads) > 0 /\ threads[Len(threads)].st # "dead"

Op(n, a, k, i) == [name |-> n, arg |-> a, ok |-> k, id |-> i]

\* _load_model_async, from a click on load_model_btn.
LoadModelAsync ==
    /\ load_model_btn
    /\ IF ModelThreadAlive
       THEN /\ lastOp' = Op("_load_model_async", "", FALSE, 0)
            /\ UNCHANGED <<threads, load_model_btn, load_custom_model_btn>>
       ELSE /\ Len(threads) < MaxLoads
            /\ load_model_btn' = FALSE
            /\ load_custom_model_btn' = FALSE
            /\ threads' = Append(threads, [st |-> "running", custom |-> FALSE])
            /\ lastOp' = Op("_load_model_async", "", TRUE, 0)
    /\ UNCHANGED <<model, lastCall, model_loaded, signals>>
    /\ UNCHANGED <<imageVars, predVars, labelVars>>

\* _load_custom_model, from a click on load_custom_model_btn; chosen: the
\* file dialog returned a path.
LoadCustomModel(chosen) ==
    /\ load_custom_model_btn
    /\ IF chosen
       THEN /\ Len(threads) < MaxLoads
            /\ load_model_btn' = FALSE
            /\ load_custom_model_btn' = FALSE
            /\ threads' = Append(threads, [st |-> "running", custom |-> TRUE])
       ELSE UNCHANGED <<threads, load_model_btn, load_custom_model_btn>>
    /\ lastOp' = Op("_load_custom_model", "", chosen, 0)
    /\ UNCHANGED <<model, lastCall, model_loaded, signals>>
    /\ UNCHANGED <<imageVars, predVars, labelVars>>

\* _load_model_thread up to the assignment of self.model: a wrapper was
\* constructed (at the first attempt or at the CPU retry) on device d.
ThreadAssignModel(i, d) ==
    /\ i \in DOMAIN threads
    /\ threads[i].st = "running"
    /\ model' = WrapperNew(d)
    /\ threads' = [threads EXCEPT ![i].st = "assigned"]
    /\ UNCHANGED <<lastCall, model_loaded, signals, load_model_btn,
                   load_custom_model_btn>>
    /\ lastOp' = Op("_load_model_thread", "assign_model", TRUE, i)
    /\ UNCHANGED <<imageVars, predVars, labelVars>>

\* _load_model_thread: finished_signal.emit(), the thread's last statement.
ThreadEmitFinished(i) ==
    /\ i \in DOMAIN threads
    /\ threads[i].st = "assigned"
    /\ signals' = Append(signals, "finished")
    /\ threads' = [threads EXCEPT ![i].st = "exiting"]
    /\ UNCHANGED <<model, lastCall, model_loaded, load_model_btn,
                   load_custom_model_btn>>
    /\ lastOp' = Op("_load_model_thread", "emit_finished", TRUE, i)
    /\ UNCHANGED <<imageVars, predVars, labelVars>>

\* _load_model_thread: both constructions raised; error_signal.emit().
ThreadEmitError(i) ==
    /\ i \in DOMAIN threads
    /\ threads[i].st = "running"
    /\ signals' = Append(signals, "error")
    /\ threads' = [threads EXCEPT ![i].st = "exiting"]
    /\ UNCHANGED <<model, lastCall, model_loaded, load_model_btn,
                   load_custom_model_btn>>
    /\ lastOp' = Op("_load_model_thread", "emit_error", TRUE, i)
    /\ UNCHANGED <<imageVars, predVars, labelVars>>

\* The thread function has returned and the thread ends: is_alive() turns
\* False.
ThreadExit(i) ==
    /\ i \in DOMAIN threads
    /\ threads[i].st = "exiting"
    /\ threads' = [threads EXCEPT ![i].st = "dead"]
    /\ UNCHANGED <<model, lastCall, model_loaded, signals, load_model_btn,
                   load_custom_model_btn>>
    /\ lastOp' = Op("_load_model_thread", "exit", TRUE, i)
    /\ UNCHANGED <<imageVars, predVars, labelVars>>

\* _model_loading_finished, the slot of finished_signal, run by the GUI
\* thread when it takes the queued signal.
ModelLoadingFinished ==
    /\ signals # <<>>
    /\ Head(signals) = "finished"
    /\ signals' = Tail(signals)
    /\ model_loaded' = TRUE
    /\ load_model_btn' = TRUE
    /\ load_custom_model_btn' = TRUE
    /\ lastOp' = Op("_model_loading_finished", "", TRUE, 0)
    /\ UNCHANGED <<model, lastCall, threads>>
    /\ UNCHANGED <<imageVars, predVars, labelVars>>

\* An error slot that leaves the load buttons as they are.
HandleErrorButtonsLeft ==
    /\ signals # <<>>
    /\ Head(signals) = "error"
    /\ signals' = Tail(signals)
    /\ lastOp' = Op("_handle_error", "", TRUE, 0)
    /\ UNCHANGED <<model, lastCall, model_loaded, threads, load_model_btn,
                   load_custom_model_btn>>
    /\ UNCHANGED <<imageVars, predVars, labelVars>>

\* _handle_error, the slot of error_signal.
HandleError ==
    /\ signals # <<>>
    /\ Head(signals) = "error"
    /\ signals' = Tail(signals)
    /\ load_model_btn' = TRUE
    /\ load_custom_model_btn' = TRUE
    /\ lastOp' = Op("_handle_error", "", TRUE, 0)
    /\ UNCHANGED <<model, lastCall, model_loaded, threads>>
    /\ UNCHANGED <<imageVars, predVars, labelVars>>


\* ------------------------------------------------------------ current image

\* The call self.model.set_image(image_data) as lastCall records it.
SetImageCall(w, raised) ==
    [fn |-> "set_image",
     result |-> IF raised THEN "ValueError_set_image_failed" ELSE "ok",
     forwarded |-> FALSE,
     fresh |-> ~w.set_image_called,
     emb |-> w.image_embeddings]

\* _set_current_image on the layer holding image img (the viewer holds the
\* image layers Images, so the combo box is never empty once it was
\* refreshed); f, keep: where the wrapper's set_image fails, if it does.
\* The result: the wrapper, lastCall and current_image afterwards.
SetCurrentImageResult(img, f, keep) ==
    IF ~model_loaded
    THEN [model |-> model, lastCall |-> lastCall, current_image |-> current_image,
          ok |-> FALSE]
    ELSE LET r == set_image(model, img, f, keep) IN
         [model |-> r.w,
          lastCall |-> SetImageCall(model, r.raised),
          current_image |-> IF r.raised THEN current_image ELSE img,
          ok |-> ~r.raised]

\* _set_current_image, from a click on set_image_btn.
SetCurrentImage(img, f, keep) ==
    LET r == SetCurrentImageResult(img, f, keep) IN
    /\ model' = r.model
    /\ lastCall' = r.lastCall
    /\ current_image' = r.current_image
    /\ lastOp' = Op("_set_current_image", "button", r.ok, img)
    /\ UNCHANGED <<image_files, current_image_index>>
    /\ UNCHANGED <<loadVars, predVars, labelVars>>

\* _clear_annotations, seen from the prediction state: the shapes of the
\* layer the widget created are dropped, the mask layer is removed, the
\* result is reset and the result controls are disabled.
ClearAnnotationsEffect ==
    /\ shapes' = IF shapes.present /\ shapes.own
                 THEN [shapes EXCEPT !.types = <<>>]
                 ELSE shapes
    /\ mask_layer' = [present |-> FALSE, data |-> ZeroMask]
    /\ result_masks' = <<>>
    /\ result_scores' = <<>>
    /\ selected_mask_idx' = 0
    /\ add_to_labels_btn' = FALSE
    /\ UNCHANGED <<prediction_mode, erode_mask_btn>>

\* _load_image_by_index(index) on the file list files; readOk: io.imread
\* returned the image.  Sets every variable but image_files and lastOp.
LoadImageByIndexEffect(files, index, readOk, f, keep) ==
    IF index < 0 \/ index >= Len(files)
    THEN UNCHANGED <<model, lastCall, current_image, current_image_index,
                     predVars, labelVars>>
    ELSE /\ current_image_index' = index
         /\ IF ~readOk
            THEN UNCHANGED <<model, lastCall, current_image, predVars, labelVars>>
            ELSE LET r == SetCurrentImageResult(files[index + 1], f, keep) IN
                 /\ model' = r.model
                 /\ lastCall' = r.lastCall
                 /\ current_image' = r.current_image
                 /\ ClearAnnotationsEffect
                 /\ LayerEvent

\* self.image_files[index], 0 when there is no such file.
FileAt(files, index) ==
    IF index >= 0 /\ index < Len(files) THEN files[index + 1] ELSE 0

\* Whether _load_image_by_index(index) got the wrapper to embed the image.
LoadImageByIndexOk(files, index, readOk, f, keep) ==
    /\ index >= 0 /\ index < Len(files)
    /\ readOk
    /\ SetCurrentImageResult(files[index + 1], f, keep).ok

\* The file lists a folder can give: image files in sorted order.
Folders ==
    {fl \in UNION {[1..n -> Images] : n \in 0..NImages} :
        \A i \in 1..Len(fl), j \in 1..Len(fl) : i < j => fl[i] < fl[j]}

\* _import_image_folder; chosen: the dialog returned a folder, whose image
\* files are folder.
ImportImageFolder(chosen, folder, readOk, f, keep) ==
    /\ folder \in Folders
    /\ IF ~chosen
       THEN /\ UNCHANGED <<model, lastCall, imageVars, predVars, labelVars>>
            /\ lastOp' = Op("_import_image_folder", "cancel", FALSE, 0)
       ELSE /\ image_files' = folder
            /\ IF folder # <<>>
               THEN /\ LoadImageByIndexEffect(folder, 0, readOk, f, keep)
                    /\ lastOp' = Op("_load_image_by_index", "import",
                                    LoadImageByIndexOk(folder, 0, readOk, f, keep),
                                    folder[1])
               ELSE /\ UNCHANGED <<model, lastCall, current_image,
                                   current_image_index, predVars, labelVars>>
                    /\ lastOp' = Op("_import_image_folder", "empty", FALSE, 0)
    /\ UNCHANGED loadVars

\* _load_prev_image
LoadPrevImage(readOk, f, keep) ==
    /\ IF current_image_index > 0
       THEN /\ LoadImageByIndexEffect(image_files, current_image_index - 1,
                                      readOk, f, keep)
            /\ lastOp' = Op("_load_image_by_index", "prev",
                            LoadImageByIndexOk(image_files, current_image_index - 1,
                                               readOk, f, keep),
                            FileAt(image_files, current_image_index - 1))
       ELSE /\ UNCHANGED <<model, lastCall, current_image, current_image_index,
                           predVars, labelVars>>
            /\ lastOp' = Op("_load_prev_image", "first", FALSE, 0)
    /\ UNCHANGED <<image_files, loadVars>>

\* _load_next_image
LoadNextImage(readOk, f, keep) ==
    /\ IF current_image_index < Len(image_files) - 1
       THEN /\ LoadImageByIndexEffect(image_files, current_image_index + 1,
                                      readOk, f, keep)
            /\ lastOp' = Op("_load_image_by_index", "next",
                            LoadImageByIndexOk(image_files, current_image_index + 1,
                                               readOk, f, keep),
                            FileAt(image_files, current_image_index + 1))
       ELSE /\ UNCHANGED <<model, lastCall, current_image, current_image_index,
                           predVars, labelVars>>
            /\ lastOp' = Op("_load_next_image", "last", FALSE, 0)
    /\ UNCHANGED <<image_files, loadVars>>


\* --------------------------------------------------------------- prediction

ScoreVals == {1, 2}

\* What predictor.predict returns: one candidate, or MultiCands candidates
\* with multimask_output, each with a score.
Results(multimask) ==
    LET n == IF multimask THEN MultiCands ELSE 1 IN
    [masks : [1..n -> CandidateMasks], scores : [1..n -> ScoreVals]]

\* An argmax that returns the last index of the largest score.
ArgMaxLast(scores) ==
    (CHOOSE i \in 1..Len(scores) :
        /\ \A j \in 1..Len(scores) : scores[j] <= scores[i]
        /\ \A j \in (i + 1)..Len(scores) : scores[j] < scores[i]) - 1

\* np.argmax(scores): the first index of the largest score (0-based).
ArgMax(scores) ==
    (CHOOSE i \in 1..Len(scores) :
        /\ \A j \in 1..Len(scores) : scores[j] <= scores[i]
        /\ \A j \in 1..(i - 1) : scores[j] < scores[i]) - 1

\* The tail of predict_from_points, predict_from_box and
\* predict_from_box_and_points: the predictor's masks and scores are returned
\* as they are, with best_idx = np.argmax(scores).
PredictReturn(res) ==
    [masks |-> res.masks, scores |-> res.scores, best_idx |-> ArgMax(res.scores)]

\* _update_mask_list with n scores while selected_mask_idx = sel: clear()
\* signals index -1, which _update_selected_mask ignores; the first addItem
\* makes item 0 current and signals index 0, which _update_selected_mask
\* takes (it sets selected_mask_idx to 0); setCurrentIndex is then given the
\* value just stored.  The result: selected_mask_idx afterwards.
SelectedAfterMaskListUpdate(n, sel) ==
    IF n > 0 THEN 0 ELSE sel

PointCount(types) == Cardinality({i \in DOMAIN types : types[i] = "point"})
HasRectangle(types) == \E i \in DOMAIN types : types[i] = "rectangle"

\* The predict variant _run_prediction calls for the mode and the shapes.
PredictFn(mode, types) ==
    IF mode = "points" THEN "predict_from_points"
    ELSE IF PointCount(types) > 0 THEN "predict_from_box_and_points"
    ELSE "predict_from_box"

\* Whether _run_prediction gets as far as calling the wrapper; boxValid:
\* shapes_to_box gave a box for the last rectangle.
ReachesWrapper(boxValid) ==
    /\ shapes.present
    /\ Len(shapes.types) > 0
    /\ prediction_mode = "points" => PointCount(shapes.types) > 0
    /\ prediction_mode = "box" => (HasRectangle(shapes.types) /\ boxValid)

\* _run_prediction (predict button, space key, delayed prediction) with
\* _predict_with_points / _predict_with_box_and_points; res: what the
\* predictor returns if it is reached; libFail: predictor.predict raises.
RunPrediction(multimask, res, boxValid, libFail) ==
    LET fn == PredictFn(prediction_mode, shapes.types)
        call0 == predict(model, fn, TRUE)
        call == IF call0.forwarded /\ libFail
                THEN [call0 EXCEPT !.result = "RuntimeError_predictor"]
                ELSE call0
        ret == PredictReturn(res)
        best == ret.best_idx
    IN
    /\ res \in Results(multimask)
    /\ IF ~model_loaded \/ current_image = 0
       THEN /\ lastOp' = Op("_run_prediction", "no_model_or_image", FALSE, 0)
            /\ UNCHANGED <<lastCall, predVars, labelVars>>
       ELSE IF ~shapes.present
       THEN /\ shapes' = [present |-> TRUE, own |-> TRUE, types |-> <<>>]
            /\ lastOp' = Op("_run_prediction", "no_shapes", FALSE, 0)
            /\ LayerEvent
            /\ UNCHANGED <<lastCall, prediction_mode, result_masks, result_scores,
                           selected_mask_idx, mask_layer, add_to_labels_btn,
                   erode_mask_btn>>
       ELSE IF ~ReachesWrapper(boxValid)
       THEN /\ lastOp' = Op("_run_prediction", "no_prompt", FALSE, 0)
            /\ UNCHANGED <<lastCall, predVars, labelVars>>
       ELSE IF call.result # "ok"
       THEN /\ lastCall' = call
            /\ lastOp' = Op("_run_prediction", fn, FALSE, 0)
            /\ UNCHANGED <<predVars, labelVars>>
       ELSE /\ lastCall' = call
            /\ result_masks' = ret.masks
            /\ result_scores' = ret.scores
            /\ selected_mask_idx' =
                   SelectedAfterMaskListUpdate(Len(ret.scores), best)
            /\ mask_layer' = [present |-> TRUE, data |-> ret.masks[best + 1]]
            /\ add_to_labels_btn' = TRUE
            /\ erode_mask_btn' = TRUE
            /\ lastOp' = Op("_run_prediction", fn, TRUE, ret)
            /\ IF mask_layer.present THEN UNCHANGED labelVars ELSE LayerEvent
            /\ UNCHANGED <<shapes, prediction_mode>>
    /\ UNCHANGED <<model, loadVars, imageVars>>

\* _update_selected_mask(index), from the user choosing a candidate in
\* mask_combo.
UpdateSelectedMask(index) ==
    /\ add_to_labels_btn
    /\ IF index < 0 \/ Len(result_masks) = 0 \/ index >= Len(result_masks)
       THEN UNCHANGED <<selected_mask_idx, mask_layer, labelVars>>
       ELSE /\ selected_mask_idx' = index
            /\ mask_layer' = [present |-> TRUE, data |-> result_masks[index + 1]]
            /\ IF mask_layer.present THEN UNCHANGED labelVars ELSE LayerEvent
    /\ lastOp' = Op("_update_selected_mask", "", TRUE, index)
    /\ UNCHANGED <<shapes, prediction_mode, result_masks, result_scores,
                   add_to_labels_btn,
                   erode_mask_btn>>
    /\ UNCHANGED <<model, lastCall, loadVars, imageVars>>

\* _update_prediction_mode, from the mode combo box.
UpdatePredictionMode(mode) ==
    /\ mode # prediction_mode
    /\ prediction_mode' = mode
    /\ lastOp' = Op("_update_prediction_mode", mode, TRUE, 0)
    /\ UNCHANGED <<shapes, result_masks, result_scores, selected_mask_idx,
                   mask_layer, add_to_labels_btn,
                   erode_mask_btn>>
    /\ UNCHANGED <<model, lastCall, loadVars, imageVars, labelVars>>

\* The user adds a Shapes layer of their own to the viewer.
UserAddShapesLayer ==
    /\ ~shapes.present
    /\ shapes' = [present |-> TRUE, own |-> FALSE, types |-> <<>>]
    /\ LayerEvent
    /\ lastOp' = Op("_on_layer_change", "shapes", TRUE, 0)
    /\ UNCHANGED <<prediction_mode, result_masks, result_scores,
                   selected_mask_idx, mask_layer, add_to_labels_btn,
                   erode_mask_btn>>
    /\ UNCHANGED <<model, lastCall, loadVars, imageVars>>

\* The user draws a shape of type t in the Shapes layer.
UserAddShape(t) ==
    /\ shapes.present
    /\ Len(shapes.types) < MaxShapes
    /\ shapes' = [shapes EXCEPT !.types = Append(@, t)]
    /\ lastOp' = Op("_on_shapes_data_changed", t, TRUE, 0)
    /\ UNCHANGED <<prediction_mode, result_masks, result_scores,
                   selected_mask_idx, mask_layer, add_to_labels_btn,
                   erode_mask_btn>>
    /\ UNCHANGED <<model, lastCall, loadVars, imageVars, labelVars>>


\* ------------------------------------------------------------------- labels

\* The element types the first branch of mask_to_binary tests for.
HandledIntDtypes == {"uint8", "int32", "int64"}

\* mask_to_binary(mask, threshold) for a mask of element type dtype: a mask of
\* one of the three tested integer types is compared with 0, any other mask
\* with the threshold (values and threshold in tenths).
mask_to_binary(mask, dtype, threshold) ==
    [p \in DOMAIN mask |->
        IF dtype \in HandledIntDtypes
        THEN (IF mask[p] > 0 THEN 1 ELSE 0)
        ELSE (IF mask[p] > threshold THEN 1 ELSE 0)]

\* The default threshold 0.5, in tenths.
DefaultThreshold == 5

\* _generate_label_color(label_id): the hue (label_id * 0.618...) mod 1 in
\* thousandths; saturation, value and alpha are fixed, so the hue stands
\* for the colour.
GenerateLabelColor(label_id) == (label_id * 618) % 1000

\* f"对象{next_label_id}", the placeholder name of an unnamed mask.
ObjNames == <<"obj1", "obj2", "obj3", "obj4", "obj5", "obj6">>
ObjName(k) == ObjNames[k]

\* A dict update that is lost: d[k] = v never stored.
WithEntryLost(d, k, v) == d

\* A dict with the single entry k: v, and dict d with d[k] = v added.
Single(k, v) == [x \in {k} |-> v]
With(d, k, v) == [x \in DOMAIN d \cup {k} |-> IF x = k THEN v ELSE d[x]]

\* The loop over label_names.items() looking for label_name: the keys
\* holding it (keys are inserted in ascending order, so the first match is
\* the smallest).
KeysNamed(names, label_name) == {k \in DOMAIN names : names[k] = label_name}

\* max(self.label_names.keys(), default=0) + 1
NewLabelId(names) == IF DOMAIN names = {} THEN 1 ELSE Max(DOMAIN names) + 1

\* labels_data[labels_data == label_id] = 0; labels_data[binary_mask > 0] =
\* label_id
ApplyMask(data, binary, label_id) ==
    [p \in Pix |->
        IF binary[p] > 0 THEN label_id
        ELSE IF data[p] = label_id THEN 0
        ELSE data[p]]

\* What _add_mask_to_labels decides for the name label_name: the id, the
\* maps, the counter and the raster afterwards.
AcceptResult(label_name, binary) ==
    IF labels_layer.present
    THEN IF labels_layer.meta
         THEN LET found == KeysNamed(label_names, label_name)
                  label_id == IF found # {}
                              THEN CHOOSE k \in found : \A j \in found : k <= j
                              ELSE NewLabelId(label_names)
              IN [id |-> label_id,
                  names |-> IF found # {} THEN label_names
                            ELSE With(label_names, label_id, label_name),
                  colors |-> IF found # {} THEN label_colors
                             ELSE With(label_colors, label_id,
                                       GenerateLabelColor(label_id)),
                  next |-> next_label_id,
                  data |-> ApplyMask(labels_layer.data, binary, label_id),
                  branch |-> IF found # {} THEN "existing" ELSE "new"]
         ELSE [id |-> next_label_id,
               names |-> Single(next_label_id, label_name),
               colors |-> Single(next_label_id, GenerateLabelColor(next_label_id)),
               next |-> next_label_id + 1,
               data |-> ApplyMask(labels_layer.data, binary, next_label_id),
               branch |-> "init_metadata"]
    ELSE [id |-> 1,
          names |-> Single(1, label_name),
          colors |-> Single(1, GenerateLabelColor(1)),
          next |-> 2,
          data |-> ApplyMask(ZeroMask, binary, 1),
          branch |-> "new_layer"]

\* An accept that uses the result up: it discards it as _clear_annotations
\* would.
AddMaskToLabelsConsuming(text) ==
    /\ add_to_labels_btn
    /\ text \in UserNames \cup {""}
    /\ Len(result_masks) > 0
    /\ result_masks' = <<>>
    /\ result_scores' = <<>>
    /\ selected_mask_idx' = 0
    /\ lastOp' = Op("_add_mask_to_labels", text, TRUE, 1)
    /\ UNCHANGED <<shapes, prediction_mode, mask_layer, add_to_labels_btn,
                   erode_mask_btn>>
    /\ UNCHANGED <<model, lastCall, loadVars, imageVars, labelVars>>

\* _add_mask_to_labels, from a click on add_to_labels_btn; text: the text of
\* label_name_combo, stripped.
AddMaskToLabels(text) ==
    /\ add_to_labels_btn
    /\ text \in UserNames \cup {""}
    /\ IF Len(result_masks) = 0 \/ selected_mask_idx >= Len(result_masks)
       THEN /\ lastOp' = Op("_add_mask_to_labels", "no_mask", FALSE, 0)
            /\ UNCHANGED labelVars
       ELSE LET binary == mask_to_binary(result_masks[selected_mask_idx + 1],
                                         "bool", DefaultThreshold)
                label_name == IF text = "" THEN ObjName(next_label_id) ELSE text
                r == AcceptResult(label_name, binary)
            IN /\ r.id <= MaxLabelId
               /\ labels_layer' = [present |-> TRUE, meta |-> TRUE, data |-> r.data]
               /\ label_names' = r.names
               /\ label_colors' = r.colors
               /\ next_label_id' = r.next
               /\ clear_labels_btn' = TRUE
               /\ lastOp' = Op("_add_mask_to_labels", label_name, TRUE, r.id)
    /\ UNCHANGED <<model, lastCall, loadVars, imageVars, predVars>>

\* A clear-all that does not wait for the answer to its dialog.
ClearAllLabelsUnconfirmed(reply) ==
    /\ clear_labels_btn
    /\ labels_layer.present
    /\ labels_layer' = [present |-> FALSE, meta |-> FALSE, data |-> ZeroMask]
    /\ label_names' = EmptyMap
    /\ label_colors' = EmptyMap
    /\ next_label_id' = 1
    /\ clear_labels_btn' = FALSE
    /\ lastOp' = Op("_clear_all_labels", reply, reply = "Yes", 0)
    /\ UNCHANGED <<model, lastCall, loadVars, imageVars, predVars>>

\* _clear_all_labels, from a click on clear_labels_btn; reply: the answer to
\* the confirmation dialog.
ClearAllLabels(reply) ==
    /\ clear_labels_btn
    /\ IF ~labels_layer.present
       THEN /\ lastOp' = Op("_clear_all_labels", "no_layer", FALSE, 0)
            /\ UNCHANGED labelVars
       ELSE IF reply = "Yes"
       THEN /\ labels_layer' = [present |-> FALSE, meta |-> FALSE, data |-> ZeroMask]
            /\ label_names' = EmptyMap
            /\ label_colors' = EmptyMap
            /\ next_label_id' = 1
            /\ clear_labels_btn' = FALSE
            /\ lastOp' = Op("_clear_all_labels", "Yes", TRUE, 0)
       ELSE /\ lastOp' = Op("_clear_all_labels", "No", FALSE, 0)
            /\ UNCHANGED labelVars
    /\ UNCHANGED <<model, lastCall, loadVars, imageVars, predVars>>

\* The user deletes the label layer in the viewer; _on_layer_change runs.
UserRemoveLabelsLayer ==
    /\ labels_layer.present
    /\ labels_layer' = [present |-> FALSE, meta |-> FALSE, data |-> ZeroMask]
    /\ clear_labels_btn' = FALSE
    /\ lastOp' = Op("_on_layer_change", "labels_removed", TRUE, 0)
    /\ UNCHANGED <<label_names, label_colors, next_label_id>>
    /\ UNCHANGED <<model, lastCall, loadVars, imageVars, predVars>>

\* The user adds a new, empty label layer under the label layer's name: it
\* carries no label maps in its metadata; _on_layer_change runs.
UserInsertLabelsLayer ==
    /\ ~labels_layer.present
    /\ labels_layer' = [present |-> TRUE, meta |-> FALSE, data |-> ZeroMask]
    /\ clear_labels_btn' = TRUE
    /\ lastOp' = Op("_on_layer_change", "labels_inserted", TRUE, 0)
    /\ UNCHANGED <<label_names, label_colors, next_label_id>>
    /\ UNCHANGED <<model, lastCall, loadVars, imageVars, predVars>>

\* The user renames the label layer in the viewer: the widget no longer
\* finds it under its name, and no inserted/removed event fires.
UserRenameLabelsLayer ==
    /\ labels_layer.present
    /\ labels_layer' = [present |-> FALSE, meta |-> FALSE, data |-> ZeroMask]
    /\ lastOp' = Op("rename", "labels_renamed", TRUE, 0)
    /\ UNCHANGED <<label_names, label_colors, next_label_id, clear_labels_btn>>
    /\ UNCHANGED <<model, lastCall, loadVars, imageVars, predVars>>

\* ---------------------------------------------------------- specifications

\* The label-map manager at work: one model load on the CPU, one image, one
\* point prompt, single-candidate predictions; every label handler and label
\* layer event.
NextLabels ==
    \/ ThreadAssignModel(1, "cpu")
    \/ ThreadEmitFinished(1)
    \/ ModelLoadingFinished
    \/ SetCurrentImage(1, "none", FALSE)
    \/ shapes.types = <<>> /\ UserAddShape("point")
    \/ \E res \in Results(FALSE) :
          res.scores[1] = 1 /\ RunPrediction(FALSE, res, TRUE, FALSE)
    \/ \E text \in UserNames \cup {""} : AddMaskToLabels(text)
    \/ \E reply \in {"Yes", "No"} : ClearAllLabels(reply)
    \/ UserRemoveLabelsLayer
    \/ UserInsertLabelsLayer
    \/ UserRenameLabelsLayer

SpecLabels == Init /\ [][NextLabels]_vars

\* Model loading alone: every load request, every step of every worker
\* thread, both completion handlers.
NextLoad ==
    \/ LoadModelAsync
    \/ \E chosen \in BOOLEAN : LoadCustomModel(chosen)
    \/ \E i \in 1..MaxLoads, d \in Devices : ThreadAssignModel(i, d)
    \/ \E i \in 1..MaxLoads : ThreadEmitFinished(i)
    \/ \E i \in 1..MaxLoads : ThreadEmitError(i)
    \/ \E i \in 1..MaxLoads : ThreadExit(i)
    \/ ModelLoadingFinished
    \/ HandleError

SpecLoad == Init /\ [][NextLoad]_vars

\* Images and predictions: one model load on the CPU, every way of setting
\* the current image (the embedding succeeds or the predictor raises), point
\* prompts, predictions whose candidates cover the whole image.
FullMask == [p \in Pix |-> 10]

NextImage ==
    \/ ThreadAssignModel(1, "cpu")
    \/ ThreadEmitFinished(1)
    \/ ThreadExit(1)
    \/ ModelLoadingFinished
    \/ \E img \in Images, f \in {"none", "predictor"} :
          SetCurrentImage(img, f, FALSE)
    \/ \E chosen \in BOOLEAN, folder \in Folders, readOk \in BOOLEAN,
          f \in {"none", "predictor"} :
          ImportImageFolder(chosen, folder, readOk, f, FALSE)
    \/ \E readOk \in BOOLEAN, f \in {"none", "predictor"} :
          LoadPrevImage(readOk, f, FALSE)
    \/ \E readOk \in BOOLEAN, f \in {"none", "predictor"} :
          LoadNextImage(readOk, f, FALSE)
    \/ UserAddShape("point")
    \/ \E multimask \in BOOLEAN, libFail \in BOOLEAN :
          \E res \in Results(multimask) :
              /\ \A i \in DOMAIN res.masks : res.masks[i] = FullMask
              /\ RunPrediction(multimask, res, TRUE, libFail)
    \/ \E index \in 0..(MultiCands - 1) : UpdateSelectedMask(index)

SpecImage == Init /\ [][NextImage]_vars

\* ------------------------------------------------------------------ claims

\* The step just taken is a completed _add_mask_to_labels.
AcceptStep == lastOp'.name = "_add_mask_to_labels" /\ lastOp'.ok

\* The binary mask the accept step stored: the selected candidate.
AcceptedBinary ==
    mask_to_binary(result_masks[selected_mask_idx + 1], "bool", DefaultThreshold)

\* The pixels of a raster holding id k.
Footprint(data, k) == {p \in Pix : data[p] = k}

\* C3 (as claimed): accepting a mask under a name the label map already
\* holds keeps that label's id and colour, allocates no id, and leaves the
\* id on exactly the pixels of the accepted binary mask.
C3_ReacceptKeepsIdAndReplacesFootprint ==
    [][(AcceptStep /\ KeysNamed(label_names, lastOp'.arg) # {})
          => /\ lastOp'.id \in KeysNamed(label_names, lastOp'.arg)
             /\ DOMAIN label_names' \subseteq DOMAIN label_names
             /\ lastOp'.id \in DOMAIN label_colors
             /\ lastOp'.id \in DOMAIN label_colors'
             /\ label_colors'[lastOp'.id] = label_colors[lastOp'.id]
             /\ Footprint(labels_layer'.data, lastOp'.id)
                    = {p \in Pix : AcceptedBinary[p] > 0}]_vars

\* C4 (as claimed): re-accepting a label that is placed on the raster leaves
\* every other label's pixels, name and colour as they were, also when the
\* accepted mask covers pixels of other labels.
C4_ReacceptLeavesOtherLabels ==
    [][(/\ AcceptStep
        /\ labels_layer.present /\ labels_layer.meta
        /\ KeysNamed(label_names, lastOp'.arg) # {})
          => \A k \in DOMAIN label_names \ {lastOp'.id} :
                /\ Footprint(labels_layer'.data, k) = Footprint(labels_layer.data, k)
                /\ k \in DOMAIN label_names' /\ label_names'[k] = label_names[k]
                /\ k \in DOMAIN label_colors' /\ label_colors'[k] = label_colors[k]]_vars

C6_EntriesOnlyRemovedByClearAll ==
    [][~(lastOp'.name = "_clear_all_labels" /\ lastOp'.ok)
          => \A k \in DOMAIN label_names :
                /\ k \in DOMAIN label_names' /\ label_names'[k] = label_names[k]
                /\ k \in DOMAIN label_colors' /\ label_colors'[k] = label_colors[k]]_vars

\* C7 (as claimed): accepting a mask under a name the label map does not
\* hold allocates max(existing ids, default 0) + 1, records name and colour
\* for it and changes no existing entry.
C7_NewNameGetsMaxPlusOne ==
    [][(AcceptStep /\ KeysNamed(label_names, lastOp'.arg) = {})
          => /\ lastOp'.id = NewLabelId(label_names)
             /\ label_names' = With(label_names, lastOp'.id, lastOp'.arg)
             /\ label_colors' = With(label_colors, lastOp'.id,
                                     GenerateLabelColor(lastOp'.id))]_vars

\* C8: clear-all empties the label maps, removes the raster and resets the
\* counter to 1 exactly when the user confirms, after which the next accepted
\* mask gets id 1; declined, or without a raster, it changes none of them.
C8_ClearAllOnlyOnConfirm ==
    [][/\ lastOp'.name = "_clear_all_labels"
          => IF lastOp'.arg = "Yes"
             THEN /\ ~labels_layer'.present
                  /\ label_names' = EmptyMap
                  /\ label_colors' = EmptyMap
                  /\ next_label_id' = 1
             ELSE UNCHANGED <<labels_layer, label_names, label_colors,
                              next_label_id>>
       /\ (AcceptStep /\ label_names = EmptyMap /\ next_label_id = 1)
          => /\ lastOp'.id = 1
             /\ label_names' = Single(1, lastOp'.arg)]_vars

\* A confirmed clear-all has just emptied the maps and removed the raster.
C8_Witness ==
    /\ lastOp.name = "_clear_all_labels" /\ lastOp.arg = "Yes" /\ lastOp.ok
    /\ ~labels_layer.present
    /\ label_names = EmptyMap /\ label_colors = EmptyMap
    /\ next_label_id = 1
    /\ result_masks # <<>>

\* C9 (as claimed): at most one model-loading worker thread is alive.
C9_AtMostOneLoaderThread == Cardinality(AliveThreads) <= 1

\* C10 (as claimed): after a successful set-image, from the button or from
\* loading an image by index, no candidate masks or scores are stored.
C10_SetImageClearsPrediction ==
    (lastOp.name \in {"_set_current_image", "_load_image_by_index"} /\ lastOp.ok)
        => (result_masks = <<>> /\ result_scores = <<>>)

\* ----------------------------------------------- utils.py, called directly

\* A client calls one function of utils.py (as test_plugin.py does), no
\* widget acting: lastCall holds the call, its arguments from the start and
\* its result once the call was made.
InitCall(calls) ==
    /\ WidgetFields
    /\ model = NoModel
    /\ lastCall \in calls
    /\ threads = <<>>
    /\ signals = <<>>
    /\ load_model_btn = FALSE
    /\ load_custom_model_btn = TRUE

\* The longest list of shape records, of labels and of masks a call is given.
MaxRecords == 2

\* Vertex coordinates (row, column).
Coords == {1, 2}
Vertices == Coords \X Coords

\* Lists of at most n elements of S.
SeqUpTo(S, n) == UNION {[1..k -> S] : k \in 0..n}

\* A shape record {'shape_type': t, 'data': d}; has_type and has_data say
\* whether the key is in the dict at all.
Shape(t, d) == [shape_type |-> t, data |-> d, has_type |-> TRUE, has_data |-> TRUE]

\* The four vertices napari gives a rectangle drawn from corner (r1, c1) to
\* corner (r2, c2).
RectData(r1, c1, r2, c2) == <<<<r1, c1>>, <<r1, c2>>, <<r2, c2>>, <<r2, c1>>>>

\* A filter that lets rectangles through as well.
IsPointOrRectangle(s) == s.shape_type \in {"point", "rectangle"}

\* s['shape_type'] == 'point', s['shape_type'] == 'rectangle'
IsPoint(s) == s.shape_type = "point"
IsRectangle(s) == s.shape_type = "rectangle"

\* Whether evaluating s['shape_type'] for every s raises KeyError.
TypeKeyMissing(recs) == \E i \in DOMAIN recs : ~recs[i].has_type

\* shapes_to_points(shapes, labels): the coordinates and labels returned, or
\* the exception that leaves the function (nothing in it is caught).
shapes_to_points(recs, labels) ==
    IF recs = <<>>
    THEN [raised |-> "none", points |-> <<>>, labels |-> <<>>]
    ELSE IF TypeKeyMissing(recs)
    THEN [raised |-> "KeyError", points |-> <<>>, labels |-> <<>>]
    ELSE LET point_shapes == SelectSeq(recs, IsPoint) IN
         IF point_shapes = <<>>
         THEN [raised |-> "none", points |-> <<>>, labels |-> <<>>]
         ELSE IF \E i \in DOMAIN point_shapes : ~point_shapes[i].has_data
         THEN [raised |-> "KeyError", points |-> <<>>, labels |-> <<>>]
         ELSE IF \E i \in DOMAIN point_shapes : point_shapes[i].data = <<>>
         THEN [raised |-> "IndexError", points |-> <<>>, labels |-> <<>>]
         ELSE [raised |-> "none",
               points |-> [i \in DOMAIN point_shapes |-> point_shapes[i].data[1]],
               labels |-> IF labels # <<>> /\ Len(labels) = Len(point_shapes)
                          THEN labels
                          ELSE [i \in DOMAIN point_shapes |-> 1]]

\* The shape records of the calls of shapes_to_points: points of one or two
\* vertices, a rectangle, a line.
PointCallShapes ==
    {Shape("point", <<v>>) : v \in Vertices}
    \cup {Shape("point", <<v, <<1, 2>>>>) : v \in Vertices}
    \cup {Shape("rectangle", RectData(1, 1, 2, 2)),
          Shape("line", <<<<1, 1>>, <<2, 2>>>>)}

NoPoints == [raised |-> "none", points |-> <<>>, labels |-> <<>>]

PointCalls ==
    [fn : {"shapes_to_points"}, done : {FALSE},
     shapes : SeqUpTo(PointCallShapes, MaxRecords),
     labels : SeqUpTo({0, 1}, MaxRecords),
     out : {NoPoints}]

CallShapesToPoints ==
    /\ lastCall.fn = "shapes_to_points" /\ ~lastCall.done
    /\ lastCall' = [lastCall EXCEPT
                       !.done = TRUE,
                       !.out = shapes_to_points(lastCall.shapes, lastCall.labels)]
    /\ UNCHANGED model
    /\ UNCHANGED widgetVars

NextShapesToPoints == CallShapesToPoints

SpecShapesToPoints == InitCall(PointCalls) /\ [][NextShapesToPoints]_vars

\* The positions of the point-type shapes of a list, and the k-th of them.
PointPositions(recs) == {i \in DOMAIN recs : recs[i].shape_type = "point"}
KthPoint(recs, k) ==
    CHOOSE i \in PointPositions(recs) :
        Cardinality({j \in PointPositions(recs) : j <= i}) = k

\* C13: shapes_to_points returns the first vertex of every point-type shape
\* in input order and nothing for other shapes; the labels are the supplied
\* list when it is as long as the points are many and all 1 otherwise; both
\* are empty when there is no point shape.
C13_ShapesToPoints ==
    (lastCall.fn = "shapes_to_points" /\ lastCall.done)
        => LET n == Cardinality(PointPositions(lastCall.shapes))
               out == lastCall.out
           IN /\ out.raised = "none"
              /\ Len(out.points) = n
              /\ Len(out.labels) = n
              /\ \A k \in 1..n :
                    out.points[k] = lastCall.shapes[KthPoint(lastCall.shapes, k)].data[1]
              /\ Len(lastCall.labels) = n => out.labels = lastCall.labels
              /\ Len(lastCall.labels) # n => \A k \in 1..n : out.labels[k] = 1

\* Two points around a rectangle, with a background label supplied.
C13_Witness ==
    /\ lastCall.fn = "shapes_to_points" /\ lastCall.done
    /\ Len(lastCall.shapes) > Len(lastCall.out.points)
    /\ Len(lastCall.out.points) > 0
    /\ lastCall.out.labels = lastCall.labels
    /\ \E k \in DOMAIN lastCall.out.labels : lastCall.out.labels[k] = 0

\* ------------------------------------------------------------ shapes_to_box

Min(S) == CHOOSE x \in S : \A y \in S : x <= y

\* np.array([]), the empty box.
NoBox == [raised |-> "none", box |-> <<>>]

\* The first element of a list.
FirstOf(seq) == seq[1]

\* rect_shapes[-1], the last element of a list.
LastOf(seq) == seq[Len(seq)]

\* shapes_to_box(shapes): the box returned, or the exception that leaves the
\* function.  The filter on shape_type runs before the try block; KeyError
\* and IndexError raised inside the block are caught and give the empty box.
shapes_to_box(recs) ==
    IF recs = <<>> THEN NoBox
    ELSE IF TypeKeyMissing(recs) THEN [raised |-> "KeyError", box |-> <<>>]
    ELSE LET rect_shapes == SelectSeq(recs, IsRectangle) IN
         IF rect_shapes = <<>> THEN NoBox
         ELSE LET rect == LastOf(rect_shapes) IN
              IF ~rect.has_data THEN NoBox
              ELSE IF Len(rect.data) < 4 THEN NoBox
              ELSE IF \E k \in DOMAIN rect.data : Len(rect.data[k]) < 2 THEN NoBox
              ELSE LET x_coords == {rect.data[k][2] : k \in DOMAIN rect.data}
                       y_coords == {rect.data[k][1] : k \in DOMAIN rect.data}
                       x_min == Min(x_coords)
                       y_min == Min(y_coords)
                       x_max == Max(x_coords)
                       y_max == Max(y_coords)
                   IN IF x_max <= x_min \/ y_max <= y_min THEN NoBox
                      ELSE [raised |-> "none",
                            box |-> <<x_min, y_min, x_max, y_max>>]

\* The shape records of the calls of shapes_to_box: rectangles drawn between
\* any two corners, the same with the last vertex missing, a point, an
\* ellipse.
Rectangles ==
    {RectData(r1, c1, r2, c2) : r1 \in Coords, c1 \in Coords,
                                r2 \in Coords, c2 \in Coords}
BoxCallShapes ==
    {Shape("rectangle", d) : d \in Rectangles}
    \cup {Shape("rectangle", SubSeq(d, 1, 3)) : d \in Rectangles}
    \cup {Shape("point", <<<<1, 2>>>>), Shape("ellipse", RectData(1, 1, 2, 2))}

BoxCalls ==
    [fn : {"shapes_to_box"}, done : {FALSE},
     shapes : SeqUpTo(BoxCallShapes, MaxRecords),
     out : {NoBox}]

CallShapesToBox ==
    /\ lastCall.fn = "shapes_to_box" /\ ~lastCall.done
    /\ lastCall' = [lastCall EXCEPT !.done = TRUE,
                                    !.out = shapes_to_box(lastCall.shapes)]
    /\ UNCHANGED model
    /\ UNCHANGED widgetVars

NextShapesToBox == CallShapesToBox

SpecShapesToBox == InitCall(BoxCalls) /\ [][NextShapesToBox]_vars

\* The positions of the rectangle-type shapes of a list.
RectPositions(recs) ==
    {i \in DOMAIN recs : recs[i].has_type /\ recs[i].shape_type = "rectangle"}

\* C14: shapes_to_box returns (xmin, ymin, xmax, ymax) of the vertices of the
\* last rectangle of the list, whatever else the list holds; it returns the
\* empty box without a rectangle, when the last rectangle has fewer than 4
\* vertices or no positive width and height; a box returned has xmax > xmin
\* and ymax > ymin.
C14_ShapesToBox ==
    (lastCall.fn = "shapes_to_box" /\ lastCall.done)
        => LET R == RectPositions(lastCall.shapes)
               out == lastCall.out
           IN /\ out.raised = "none"
              /\ R = {} => out.box = <<>>
              /\ R # {} =>
                   LET d == lastCall.shapes[Max(R)].data
                       xs == {d[k][2] : k \in DOMAIN d}
                       ys == {d[k][1] : k \in DOMAIN d}
                   IN IF Len(d) < 4 THEN out.box = <<>>
                      ELSE IF \A a \in xs, b \in xs : a = b THEN out.box = <<>>
                      ELSE IF \A a \in ys, b \in ys : a = b THEN out.box = <<>>
                      ELSE /\ Len(out.box) = 4
                           /\ \A a \in xs : out.box[1] <= a /\ a <= out.box[3]
                           /\ \A a \in ys : out.box[2] <= a /\ a <= out.box[4]
                           /\ out.box[1] \in xs /\ out.box[3] \in xs
                           /\ out.box[2] \in ys /\ out.box[4] \in ys
              /\ out.box # <<>> => out.box[3] > out.box[1] /\ out.box[4] > out.box[2]

\* A box returned from the second of two rectangles, the first of which
\* alone would have given no box.
C14_Witness ==
    /\ lastCall.fn = "shapes_to_box" /\ lastCall.done
    /\ Cardinality(RectPositions(lastCall.shapes)) = 2
    /\ shapes_to_box(<<lastCall.shapes[1]>>).box = <<>>
    /\ lastCall.out.box = <<1, 1, 2, 2>>

\* Shape records with a key missing or a vertex of one component, among
\* well-formed ones.
MalformedShapes ==
    {[shape_type |-> "", data |-> RectData(1, 1, 2, 2),
      has_type |-> FALSE, has_data |-> TRUE],
     [shape_type |-> "rectangle", data |-> <<>>,
      has_type |-> TRUE, has_data |-> FALSE],
     Shape("rectangle", <<<<1, 1>>, <<1, 2>>, <<2>>, <<2, 1>>>>),
     Shape("rectangle", <<<<>>, <<1, 2>>, <<2, 2>>, <<2, 1>>>>)}

MalformedBoxCalls ==
    [fn : {"shapes_to_box"}, done : {FALSE},
     shapes : SeqUpTo(MalformedShapes
                        \cup {Shape("rectangle", RectData(1, 1, 2, 2)),
                              Shape("rectangle", RectData(1, 1, 1, 2)),
                              Shape("point", <<<<1, 2>>>>)},
                      MaxRecords + 1),
     out : {NoBox}]

SpecShapesToBoxMalformed ==
    InitCall(MalformedBoxCalls) /\ [][NextShapesToBox]_vars

\* C15 (as claimed): whatever the shape records lack (the shape_type key,
\* the data key, a second vertex component), shapes_to_box raises nothing,
\* and returns the empty box when the record it would read is malformed.
C15_MalformedShapesGiveNoBox ==
    (lastCall.fn = "shapes_to_box" /\ lastCall.done)
        => /\ lastCall.out.raised = "none"
           /\ (\E i \in DOMAIN lastCall.shapes :
                  lastCall.shapes[i] \in MalformedShapes
                  /\ \A j \in DOMAIN lastCall.shapes : j > i =>
                        ~(lastCall.shapes[j].has_type
                          /\ lastCall.shapes[j].shape_type = "rectangle"))
              => lastCall.out.box = <<>>

\* ----------------------------------------------------------- mask_to_binary

\* Element types of masks: numpy's integer types, its floating-point types,
\* and bool.
IntegerDtypes == {"uint8", "uint16", "int16", "int32", "int64"}
FloatDtypes == {"float32", "float64"}

\* Element values by type, in tenths.
DtypeValues(dtype) ==
    IF dtype \in IntegerDtypes THEN {0, 10, 20}
    ELSE IF dtype \in FloatDtypes THEN {0, 1, 3, 5, 6, 8, 10}
    ELSE {0, 10}

\* Thresholds, in tenths.
Thresholds == {-10, 0, 5, 10}

BinaryCalls ==
    UNION {[fn : {"mask_to_binary"}, done : {FALSE}, dtype : {dt},
            mask : [Pix -> DtypeValues(dt)], threshold : Thresholds,
            out : {ZeroMask}]
           : dt \in IntegerDtypes \cup FloatDtypes \cup {"bool"}}

CallMaskToBinary ==
    /\ lastCall.fn = "mask_to_binary" /\ ~lastCall.done
    /\ lastCall' = [lastCall EXCEPT
                       !.done = TRUE,
                       !.out = mask_to_binary(lastCall.mask, lastCall.dtype,
                                              lastCall.threshold)]
    /\ UNCHANGED model
    /\ UNCHANGED widgetVars

NextMaskToBinary == CallMaskToBinary

SpecMaskToBinary == InitCall(BinaryCalls) /\ [][NextMaskToBinary]_vars

\* C16 (as claimed): for a mask of any integer type and any threshold an
\* element becomes 1 exactly when it is > 0, for a floating-point mask
\* exactly when it is > threshold; the output has the input's shape and
\* holds only 0 and 1.
C16_MaskToBinary ==
    (lastCall.fn = "mask_to_binary" /\ lastCall.done)
        => /\ DOMAIN lastCall.out = DOMAIN lastCall.mask
           /\ \A p \in DOMAIN lastCall.out : lastCall.out[p] \in {0, 1}
           /\ lastCall.dtype \in IntegerDtypes =>
                 \A p \in DOMAIN lastCall.mask :
                    lastCall.out[p] = 1 <=> lastCall.mask[p] > 0
           /\ lastCall.dtype \in FloatDtypes =>
                 \A p \in DOMAIN lastCall.mask :
                    lastCall.out[p] = 1 <=> lastCall.mask[p] > lastCall.threshold

\* ------------------------------------------- what the predict variants return

NoReturn == [masks |-> <<>>, scores |-> <<>>, best_idx |-> 0]

ReturnCalls ==
    [fn : PredictFns, done : {FALSE},
     res : Results(TRUE) \cup Results(FALSE), out : {NoReturn}]

CallPredictReturn ==
    /\ lastCall.fn \in PredictFns /\ ~lastCall.done
    /\ lastCall' = [lastCall EXCEPT !.done = TRUE,
                                    !.out = PredictReturn(lastCall.res)]
    /\ UNCHANGED model
    /\ UNCHANGED widgetVars

NextPredictReturn == CallPredictReturn

SpecPredictReturn == InitCall(ReturnCalls) /\ [][NextPredictReturn]_vars

\* C17: each predict variant returns the predictor's candidate masks, their
\* scores in the same order and number, and as best index the smallest
\* (0-based) index that carries the largest score.
C17_PredictReturnsArgmax ==
    (lastCall.fn \in PredictFns /\ lastCall.done)
        => LET o == lastCall.out
               n == Len(lastCall.res.scores) IN
           /\ o.masks = lastCall.res.masks
           /\ o.scores = lastCall.res.scores
           /\ Len(o.scores) = Len(o.masks)
           /\ o.best_idx \in 0..(n - 1)
           /\ \A j \in 1..n : o.scores[j] <= o.scores[o.best_idx + 1]
           /\ \A j \in 1..o.best_idx : o.scores[j] < o.scores[o.best_idx + 1]

\* A call returned candidates whose largest score occurs more than once.
C17_Witness ==
    /\ lastCall.fn \in PredictFns /\ lastCall.done
    /\ \E i, j \in 1..Len(lastCall.out.scores) :
          /\ i < j
          /\ lastCall.out.scores[i] = lastCall.out.scores[j]
          /\ \A k \in 1..Len(lastCall.out.scores) :
                lastCall.out.scores[k] <= lastCall.out.scores[i]
          /\ lastCall.out.best_idx = i - 1

\* ------------------------------------------------------ generate_unique_name

\* The number of calls followed and the seconds the clock runs through.
MaxNames == 3
MaxClock == 2

\* Prefixes, as sequences of characters; "mask" is the default.
Prefixes == {<<"m", "a", "s", "k">>, <<"t", "e", "s", "t">>}

\* The values str(uuid.uuid4())[:8] can take: eight hexadecimal digits drawn
\* at random, here two of them.
UuidPrefixes == {"0f3a9c1e", "b7d2044a"}

\* datetime.now().strftime("%Y%m%d_%H%M%S") in second t of the clock: a text
\* of fixed width that differs exactly when the second differs.
Timestamp(t) == <<"20260101_00000", t>>

\* generate_unique_name(prefix) called in second t with unique_id drawn as
\* id: f"{prefix}_{timestamp}_{unique_id}".
generate_unique_name(prefix, t, id) ==
    prefix \o <<"_">> \o Timestamp(t) \o <<"_", id>>

NameCalls ==
    {[fn |-> "generate_unique_name", now |-> 0, returned |-> <<>>]}

\* One call; the caller chooses the prefix, uuid4 the identifier.
CallGenerateUniqueName ==
    \E prefix \in Prefixes, id \in UuidPrefixes :
        /\ lastCall.fn = "generate_unique_name"
        /\ Len(lastCall.returned) < MaxNames
        /\ lastCall' = [lastCall EXCEPT
               !.returned = Append(@,
                   [prefix |-> prefix,
                    name |-> generate_unique_name(prefix, lastCall.now, id)])]
        /\ UNCHANGED model
        /\ UNCHANGED widgetVars

\* A second passes between calls.
ClockTick ==
    /\ lastCall.fn = "generate_unique_name"
    /\ lastCall.now < MaxClock
    /\ lastCall' = [lastCall EXCEPT !.now = @ + 1]
    /\ UNCHANGED model
    /\ UNCHANGED widgetVars

NextUniqueName == CallGenerateUniqueName \/ ClockTick

SpecUniqueName == InitCall(NameCalls) /\ [][NextUniqueName]_vars

\* C18 (as claimed): two successive calls never return the same name, also
\* within one second, and every returned name starts with the prefix given
\* followed by "_".
C18_SuccessiveNamesDiffer ==
    lastCall.fn = "generate_unique_name"
        => LET r == lastCall.returned IN
           /\ \A i \in 1..(Len(r) - 1) : r[i].name # r[i + 1].name
           /\ \A i \in 1..Len(r) :
                 /\ Len(r[i].name) > Len(r[i].prefix)
                 /\ SubSeq(r[i].name, 1, Len(r[i].prefix) + 1)
                        = r[i].prefix \o <<"_">>

\* ----------------------------------------------------------------- save_masks

\* The longest list of masks or scores and the longest image name passed.
MaxSave == 2
MaxNameLen == 3

\* Image names, as sequences of characters: a letter and the dot.
NameChars == {"i", "."}
ImageNames == SeqUpTo(NameChars, MaxNameLen)

\* p.rfind(c), 1-based, 0 when c does not occur.
rfind(p, c) == Max({0} \cup {k \in 1..Len(p) : p[k] = c})

\* A split at the first dot of the name.
SplitAtFirstDot(p) ==
    LET dots == {k \in 1..Len(p) : p[k] = "."} IN
    IF dots # {}
    THEN [root |-> SubSeq(p, 1, Min(dots) - 1), ext |-> SubSeq(p, Min(dots), Len(p))]
    ELSE [root |-> p, ext |-> <<>>]

\* os.path.splitext(p): the split is at the last dot, provided that dot comes
\* after the last separator and some character between the two is not a dot;
\* otherwise the extension is empty.
splitext(p) ==
    LET sepIndex == rfind(p, "/")
        dotIndex == rfind(p, ".") IN
    IF dotIndex > sepIndex
       /\ \E k \in (sepIndex + 1)..(dotIndex - 1) : p[k] # "."
    THEN [root |-> SubSeq(p, 1, dotIndex - 1), ext |-> SubSeq(p, dotIndex, Len(p))]
    ELSE [root |-> p, ext |-> <<>>]

DigitChar(d) == <<"0", "1", "2", "3", "4", "5", "6", "7", "8", "9">>[d + 1]

RECURSIVE Digits(_)
Digits(i) ==
    IF i < 10 THEN <<DigitChar(i)>>
    ELSE Digits(i \div 10) \o <<DigitChar(i % 10)>>

\* f"{i:03d}": the decimal digits of i, filled with zeros on the left to a
\* width of at least three.
Pad3(i) ==
    LET d == Digits(i) IN
    IF Len(d) >= 3 THEN d ELSE [k \in 1..(3 - Len(d)) |-> "0"] \o d

\* os.path.join(output_dir, filename) for a filename without separators.
PathJoin(dir, filename) == dir \o <<"/">> \o filename

\* open(path, 'w') / np.save(path, ...): the file at path holds content.
WriteFile(files, path, content) ==
    [q \in DOMAIN files \cup {path} |-> IF q = path THEN content ELSE files[q]]

\* The body of the loop of save_masks for the pairs from index i on; zip stops
\* with the shorter of masks and scores.  st holds the files written and
\* saved_paths so far; t is the clock.
RECURSIVE SaveLoop(_, _, _, _, _, _, _)
SaveLoop(masks, scores, output_dir, base_name, t, i, st) ==
    IF i >= Len(masks) \/ i >= Len(scores)
    THEN st
    ELSE LET binary_mask == mask_to_binary(masks[i + 1], "bool", DefaultThreshold)
             mask_path == PathJoin(output_dir,
                              base_name \o <<"_">> \o Pad3(i) \o <<".npy">>)
             metadata == [score |-> scores[i + 1], mask_id |-> i,
                          base_name |-> base_name, timestamp |-> t]
             metadata_path == PathJoin(output_dir,
                              base_name \o <<"_">> \o Pad3(i) \o <<"_meta.json">>)
         IN SaveLoop(masks, scores, output_dir, base_name, t, i + 1,
                [files |-> WriteFile(
                               WriteFile(st.files, mask_path,
                                         [kind |-> "npy", data |-> binary_mask]),
                               metadata_path,
                               [kind |-> "json", data |-> metadata]),
                 saved_paths |-> Append(st.saved_paths, mask_path)])

NoFiles == [files |-> EmptyMap, saved_paths |-> <<>>]

\* save_masks(masks, scores, output_dir, image_name, base_name) at second t;
\* has_image / has_base say whether the argument is given (not None), id is
\* what uuid4 yields when the base name is generated.
save_masks(masks, scores, output_dir, has_image, image_name, has_base, base_name, t, id) ==
    LET base1 == IF has_base THEN base_name
                 ELSE generate_unique_name(<<"m", "a", "s", "k">>, t, id)
        base2 == IF has_image
                 THEN splitext(image_name).root \o <<"_">> \o base1
                 ELSE base1
    IN SaveLoop(masks, scores, output_dir, base2, t, 0, NoFiles)

SaveMaskValues == {ZeroMask, FullMask}
OutputDir == <<"o", "u", "t">>
GivenBase == <<"b">>

SaveCalls ==
    [fn : {"save_masks"}, done : {FALSE},
     masks : SeqUpTo(SaveMaskValues, MaxSave),
     scores : SeqUpTo(ScoreVals, MaxSave),
     has_image : BOOLEAN, image_name : ImageNames,
     has_base : BOOLEAN, now : {0, 1}, id : UuidPrefixes,
     out : {NoFiles}]

CallSaveMasks ==
    /\ lastCall.fn = "save_masks" /\ ~lastCall.done
    /\ lastCall' = [lastCall EXCEPT
           !.done = TRUE,
           !.out = save_masks(lastCall.masks, lastCall.scores, OutputDir,
                              lastCall.has_image, lastCall.image_name,
                              lastCall.has_base, GivenBase,
                              lastCall.now, lastCall.id)]
    /\ UNCHANGED model
    /\ UNCHANGED widgetVars

NextSaveMasks == CallSaveMasks

SpecSaveMasks == InitCall(SaveCalls) /\ [][NextSaveMasks]_vars

\* The three decimal digits of i < 1000: hundreds, tens, units.
ThreeDigits(i) ==
    <<DigitChar((i \div 100) % 10), DigitChar((i \div 10) % 10), DigitChar(i % 10)>>

\* The base of the file names of a finished call: the base name given or the
\* generated one, after the image name without its extension and "_" when an
\* image name is given.  What "without its extension" means is said here
\* without reference to splitext: the name is root followed by ext, ext is
\* empty or a dot followed by characters other than the dot, and ext is
\* non-empty exactly when the name has a dot that follows a character other
\* than a dot.
IsBaseOf(base, c) ==
    LET given == IF c.has_base THEN GivenBase
                 ELSE generate_unique_name(<<"m", "a", "s", "k">>, c.now, c.id)
    IN IF ~c.has_image THEN base = given
       ELSE \E k \in 0..Len(c.image_name) :
               LET root == SubSeq(c.image_name, 1, k)
                   ext == SubSeq(c.image_name, k + 1, Len(c.image_name)) IN
               /\ base = root \o <<"_">> \o given
               /\ ext # <<>> => /\ ext[1] = "."
                                /\ \A j \in 2..Len(ext) : ext[j] # "."
                                /\ \E j \in 1..Len(root) : root[j] # "."
               /\ ext = <<>> => ~ \E i, j \in 1..Len(root) :
                                      i < j /\ root[i] # "." /\ root[j] = "."

\* C19: save_masks writes one array file <base>_<i, 3 digits>.npy with the
\* binarized mask and one sidecar <base>_<i, 3 digits>_meta.json with score,
\* mask_id = i, base_name and timestamp for every (mask, score) pair, writes
\* nothing else, and returns the array file paths in index order; with an
\* image name, base is the image name without extension, "_", the base name.
C19_SaveMasksFiles ==
    (lastCall.fn = "save_masks" /\ lastCall.done)
        => LET o == lastCall.out
               n == Min({Len(lastCall.masks), Len(lastCall.scores)}) IN
           /\ Len(o.saved_paths) = n
           /\ Cardinality(DOMAIN o.files) = 2 * n
           /\ \E base \in {SubSeq(q, Len(OutputDir) + 2, Len(q) - 5) :
                              q \in DOMAIN o.files} \cup {<<>>} :
                 /\ n > 0 => IsBaseOf(base, lastCall)
                 /\ \A i \in 0..(n - 1) :
                       LET d == ThreeDigits(i) IN
                          LET npy == PathJoin(OutputDir, base \o <<"_">> \o d \o <<".npy">>)
                              meta == PathJoin(OutputDir,
                                          base \o <<"_">> \o d \o <<"_meta.json">>) IN
                          /\ o.saved_paths[i + 1] = npy
                          /\ npy \in DOMAIN o.files
                          /\ o.files[npy].kind = "npy"
                          /\ DOMAIN o.files[npy].data = DOMAIN lastCall.masks[i + 1]
                          /\ \A p \in Pix :
                                o.files[npy].data[p]
                                   = IF lastCall.masks[i + 1][p] > 0 THEN 1 ELSE 0
                          /\ meta \in DOMAIN o.files
                          /\ o.files[meta].kind = "json"
                          /\ o.files[meta].data.score = lastCall.scores[i + 1]
                          /\ o.files[meta].data.mask_id = i
                          /\ o.files[meta].data.base_name = base
                          /\ o.files[meta].data.timestamp = lastCall.now

\* A call with an image name of two dots after a letter, more masks than
\* scores and at least one pair has finished.
C19_Witness ==
    /\ lastCall.fn = "save_masks" /\ lastCall.done
    /\ lastCall.has_image
    /\ lastCall.image_name = <<"i", ".", ".">>
    /\ Len(lastCall.masks) > Len(lastCall.scores)
    /\ Len(lastCall.out.saved_paths) >= 1
    /\ lastCall.masks[1] = FullMask

\* ------------------------------------- the device fallback of a model load

\* What the libraries do during a load: whether building the model from the
\* registry (with the checkpoint) works, the devices model.to(device=...)
\* accepts, and the devices on which SamPredictor(model) can be built.
LoadEnvs == [load_ok : BOOLEAN, to_ok : SUBSET Devices, pred_ok : SUBSET Devices]

Step(call, d) == [call |-> call, device |-> d]

InitRaised(t) == [raised |-> TRUE, device |-> "cpu", trace |-> t]
InitDone(d, t) == [raised |-> FALSE, device |-> d, trace |-> t]

\* The outer except of MobileSamWrapper.__init__: device = "cpu", the model
\* is built again, moved to the CPU and given a predictor; an exception here
\* leaves the constructor.
InitFallback(env, t) ==
    LET t1 == Append(t, Step("load", "cpu"))
        t2 == Append(t1, Step("to", "cpu"))
        t3 == Append(t2, Step("predictor", "cpu")) IN
    IF ~env.load_ok THEN InitRaised(t1)
    ELSE IF "cpu" \notin env.to_ok THEN InitRaised(t2)
    ELSE IF "cpu" \notin env.pred_ok THEN InitRaised(t3)
    ELSE InitDone("cpu", t3)

\* SamPredictor(self.model) with the model on device d, and its except: the
\* model is moved to the CPU and the predictor built again; an exception in
\* the except clause is caught by the outer except.
InitPredictor(env, d, t) ==
    LET t1 == Append(t, Step("predictor", d))
        t2 == Append(t1, Step("to", "cpu"))
        t3 == Append(t2, Step("predictor", "cpu")) IN
    IF d \in env.pred_ok THEN InitDone(d, t1)
    ELSE IF "cpu" \notin env.to_ok THEN InitFallback(env, t2)
    ELSE IF "cpu" \notin env.pred_ok THEN InitFallback(env, t3)
    ELSE InitDone("cpu", t3)

\* MobileSamWrapper.__init__(model_path, force_device) from the choice of
\* the device on; auto is the device the automatic choice yields.
WrapperInit(force_device, auto, env) ==
    LET d == IF force_device \in Devices THEN force_device ELSE auto
        t1 == <<Step("load", d)>>
        t2 == Append(t1, Step("to", d))
        t3 == Append(t2, Step("to", "cpu")) IN
    IF ~env.load_ok THEN InitFallback(env, t1)
    ELSE IF d \in env.to_ok THEN InitPredictor(env, d, t2)
    ELSE IF "cpu" \notin env.to_ok THEN InitFallback(env, t3)
    ELSE InitPredictor(env, "cpu", t3)

\* The entries of device_combo and the force_device each stands for.
DeviceTexts == {"auto", "CPU", "MPS", "CUDA"}
DeviceOf(device_text) ==
    CASE device_text = "CPU" -> "cpu"
      [] device_text = "MPS" -> "mps"
      [] device_text = "CUDA" -> "cuda"
      [] OTHER -> "None"

\* _load_model_thread from the reading of device_combo on: the wrapper is
\* constructed with the chosen device and, if that raises, once more with
\* force_device="cpu"; then finished_signal, or error_signal if the second
\* construction raised too.
LoadModelThread(device_text, auto, env) ==
    LET first == WrapperInit(DeviceOf(device_text), auto, env) IN
    IF ~first.raised
    THEN [signal |-> "finished", device |-> first.device, retried |-> FALSE,
          trace |-> first.trace]
    ELSE LET second == WrapperInit("cpu", auto, env) IN
         [signal |-> IF second.raised THEN "error" ELSE "finished",
          device |-> second.device, retried |-> TRUE,
          trace |-> first.trace \o second.trace]

NoLoad == [signal |-> "none", device |-> "cpu", retried |-> FALSE, trace |-> <<>>]

LoadCalls ==
    [fn : {"_load_model_thread"}, done : {FALSE}, device_text : DeviceTexts,
     auto : Devices, env : LoadEnvs, out : {NoLoad}]

CallLoadModelThread ==
    /\ lastCall.fn = "_load_model_thread" /\ ~lastCall.done
    /\ lastCall' = [lastCall EXCEPT
           !.done = TRUE,
           !.out = LoadModelThread(lastCall.device_text, lastCall.auto,
                                   lastCall.env)]
    /\ UNCHANGED model
    /\ UNCHANGED widgetVars

NextLoadModelThread == CallLoadModelThread

SpecLoadModelThread == InitCall(LoadCalls) /\ [][NextLoadModelThread]_vars

\* The times the model was built from the registry during a load request.
LoadAttempts(trace) == {k \in DOMAIN trace : trace[k].call = "load"}

\* C12 (as claimed): the model is loaded on the requested device first and,
\* after an exception, loaded exactly once more with the device forced to
\* CPU; the error signal is emitted only when that CPU attempt failed, and a
\* load that succeeded after the retry ends on cpu with the finished signal.
C12_OneCpuRetry ==
    (lastCall.fn = "_load_model_thread" /\ lastCall.done)
        => LET o == lastCall.out
               requested == IF DeviceOf(lastCall.device_text) \in Devices
                            THEN DeviceOf(lastCall.device_text)
                            ELSE lastCall.auto IN
           /\ o.trace[1] = Step("load", requested)
           /\ Cardinality(LoadAttempts(o.trace)) <= 2
           /\ \A k \in LoadAttempts(o.trace) : k > 1 => o.trace[k].device = "cpu"
           /\ o.signal \in {"finished", "error"}
           /\ o.signal = "error" => Cardinality(LoadAttempts(o.trace)) >= 2
           /\ (o.signal = "finished" /\ Cardinality(LoadAttempts(o.trace)) >= 2)
                 => o.device = "cpu"

\* -------------------------------------- the selected candidate after a predict

\* C20 (as claimed): when a prediction has succeeded and the candidate list
\* has been cleared and filled again, with its index-changed callbacks run,
\* selected_mask_idx is the best index the wrapper returned, the argmax of
\* the scores.
C20_SelectedIsBestAfterPrediction ==
    [][(lastOp'.name = "_run_prediction" /\ lastOp'.ok)
          => selected_mask_idx' = ArgMax(result_scores')]_vars

\* ------------------------------------------ the prediction result's lifetime

\* The pixels the 3-wide structuring element covers around p (cv2 ignores
\* what lies outside the image).
Neighbours(p) == {q \in Pix : q >= p - 1 /\ q <= p + 1}

\* An erosion that takes what lies outside the image for background.
ErodeBorderZero(binary) ==
    [p \in Pix |-> IF \A q \in {p - 1, p, p + 1} : q \in Pix /\ binary[q] = 1
                   THEN 1 ELSE 0]

\* cv2.dilate / cv2.erode of a binary mask with the 3-wide kernel, once.
Dilate(binary) ==
    [p \in Pix |-> IF \E q \in Neighbours(p) : binary[q] = 1 THEN 1 ELSE 0]
Erode(binary) ==
    [p \in Pix |-> IF \A q \in Neighbours(p) : binary[q] = 1 THEN 1 ELSE 0]

\* A grow/shrink that does not look whether there is a result.
AdjustMaskBoundaryUnguarded(operation_type) ==
    /\ erode_mask_btn
    /\ result_masks' = <<ZeroMask>>
    /\ lastOp' = Op("_adjust_mask_boundary", "", TRUE, operation_type)
    /\ UNCHANGED <<shapes, prediction_mode, result_scores, selected_mask_idx,
                   mask_layer, add_to_labels_btn, erode_mask_btn>>
    /\ UNCHANGED <<model, lastCall, loadVars, imageVars, labelVars>>

\* _adjust_mask_boundary(operation_type), from a click on dilate_mask_btn
\* (1) or erode_mask_btn (-1): without a result only a warning; otherwise the
\* selected candidate is replaced by its grown or shrunk binary mask, stored
\* as 0.0/1.0, and displayed.
AdjustMaskBoundary(operation_type) ==
    /\ erode_mask_btn
    /\ IF Len(result_masks) = 0 \/ selected_mask_idx >= Len(result_masks)
       THEN /\ lastOp' = Op("_adjust_mask_boundary", "no_mask", FALSE, operation_type)
            /\ UNCHANGED <<result_masks, mask_layer, labelVars>>
       ELSE LET binary_mask == mask_to_binary(result_masks[selected_mask_idx + 1],
                                              "bool", DefaultThreshold)
                adjusted_mask == IF operation_type > 0 THEN Dilate(binary_mask)
                                 ELSE Erode(binary_mask)
                stored == [p \in Pix |-> 10 * adjusted_mask[p]]
            IN /\ result_masks' =
                      [result_masks EXCEPT ![selected_mask_idx + 1] = stored]
               /\ mask_layer' = [present |-> TRUE, data |-> stored]
               /\ IF mask_layer.present THEN UNCHANGED labelVars ELSE LayerEvent
               /\ lastOp' = Op("_adjust_mask_boundary", "", TRUE, operation_type)
    /\ UNCHANGED <<shapes, prediction_mode, result_scores, selected_mask_idx,
                   add_to_labels_btn, erode_mask_btn>>
    /\ UNCHANGED <<model, lastCall, loadVars, imageVars>>

\* _save_current_mask, from a click on save_current_btn; has_dir: an output
\* directory is set or was chosen in the dialog.  The candidate selected and
\* its score go to save_masks with the prefix as base name; the widget's
\* fields stay as they are.  The paths written are kept in lastOp.
SaveCurrentMask(has_dir) ==
    /\ add_to_labels_btn
    /\ IF Len(result_masks) = 0 \/ selected_mask_idx >= Len(result_masks)
       THEN lastOp' = Op("_save_current_mask", "no_mask", FALSE, <<>>)
       ELSE IF ~has_dir
       THEN lastOp' = Op("_save_current_mask", "no_dir", FALSE, <<>>)
       ELSE lastOp' = Op("_save_current_mask", "", TRUE,
                save_masks(SubSeq(result_masks, selected_mask_idx + 1,
                                  selected_mask_idx + 1),
                           SubSeq(result_scores, selected_mask_idx + 1,
                                  selected_mask_idx + 1),
                           OutputDir, FALSE, <<>>, TRUE, GivenBase, 0,
                           "").saved_paths)
    /\ UNCHANGED <<model, lastCall, loadVars, imageVars, predVars, labelVars>>

\* _save_all_masks, from a click on save_all_btn.
SaveAllMasks(has_dir) ==
    /\ add_to_labels_btn
    /\ IF Len(result_masks) = 0
       THEN lastOp' = Op("_save_all_masks", "no_mask", FALSE, <<>>)
       ELSE IF ~has_dir
       THEN lastOp' = Op("_save_all_masks", "no_dir", FALSE, <<>>)
       ELSE lastOp' = Op("_save_all_masks", "", TRUE,
                save_masks(result_masks, result_scores, OutputDir, FALSE, <<>>,
                           TRUE, GivenBase, 0, "").saved_paths)
    /\ UNCHANGED <<model, lastCall, loadVars, imageVars, predVars, labelVars>>

\* The first candidate the predictor returns here: everything, or the first
\* pixel only; the further candidates cover everything and score lowest.
FirstPixelMask == [p \in Pix |-> IF p = 1 THEN 10 ELSE 0]
ResultMasks == {FullMask, FirstPixelMask}

\* The folder that holds every image.
FullFolder == [i \in 1..NImages |-> i]

\* The widget with a model loaded: images come from a folder, a point is
\* set, predictions run, candidates are selected, grown, shrunk, accepted
\* and saved.
NextResult ==
    \/ ThreadAssignModel(1, "cpu")
    \/ ThreadEmitFinished(1)
    \/ ModelLoadingFinished
    \/ ImportImageFolder(TRUE, FullFolder, TRUE, "none", FALSE)
    \/ LoadNextImage(TRUE, "none", FALSE)
    \/ (shapes.types = <<>> /\ UserAddShape("point"))
    \/ \E multimask \in BOOLEAN, libFail \in BOOLEAN :
          \E res \in Results(multimask) :
              /\ res.masks[1] \in ResultMasks
              /\ \A i \in DOMAIN res.masks :
                    i > 1 => res.masks[i] = FullMask /\ res.scores[i] = 1
              /\ RunPrediction(multimask, res, TRUE, libFail)
    \/ \E index \in 0..(MultiCands - 1) : UpdateSelectedMask(index)
    \/ \E operation_type \in {-1, 1} : AdjustMaskBoundary(operation_type)
    \/ \E has_dir \in BOOLEAN : SaveCurrentMask(has_dir)
    \/ \E has_dir \in BOOLEAN : SaveAllMasks(has_dir)
    \/ AddMaskToLabels("a")

SpecResult == Init /\ [][NextResult]_vars

\* Every handler and every event of the widget together.
Next ==
    \/ NextLoad
    \/ NextImage
    \/ NextLabels
    \/ NextResult

Spec == Init /\ [][Next]_vars

\* C11: a successful prediction stores exactly the masks and scores the
\* call returned, one score per mask; a load that cleared the annotations
\* leaves no result and the selected index 0; and while there is no result a
\* request to accept, save, grow or shrink changes nothing and is refused.
C11_ResultLifecycle ==
    [][/\ (lastOp'.name = "_run_prediction" /\ lastOp'.ok)
            => /\ result_masks' = lastOp'.id.masks
               /\ result_scores' = lastOp'.id.scores
               /\ Len(result_masks') = Len(result_scores')
               /\ Len(result_masks') > 0
       /\ (lastOp'.name = "_load_image_by_index" /\ lastOp'.ok)
            => /\ result_masks' = <<>>
               /\ result_scores' = <<>>
               /\ selected_mask_idx' = 0
       /\ (result_masks = <<>>
           /\ lastOp'.name \in {"_add_mask_to_labels", "_save_current_mask",
                                "_save_all_masks", "_adjust_mask_boundary"})
            => /\ ~lastOp'.ok
               /\ UNCHANGED <<model, lastCall, loadVars, imageVars, predVars,
                              labelVars>>]_vars

\* A grow or shrink was asked for after a prediction's result had been
\* discarded by the load of an image: the buttons are still enabled, there
\* is no result, and the request was refused.
C11_Witness ==
    /\ lastOp.name = "_adjust_mask_boundary"
    /\ ~lastOp.ok
    /\ erode_mask_btn
    /\ result_masks = <<>>
    /\ image_files # <<>>

\* ------------------------------------------------- accepting leaves the result

\* C21: accepting a mask into the label raster leaves the candidate masks,
\* the scores and the selected index as they were and the accept button
\* enabled, so the same mask can be accepted again, under another name,
\* without a new prediction.
C21_AcceptKeepsResult ==
    [][AcceptStep
          => /\ UNCHANGED <<result_masks, result_scores, selected_mask_idx>>
             /\ add_to_labels_btn'
             /\ Len(result_masks') > 0
             /\ selected_mask_idx' < Len(result_masks')]_vars

\* The mask was accepted under one name and the last step accepted it under
\* another: both names are in the label map, under different ids.
C21_Witness ==
    /\ lastOp.name = "_add_mask_to_labels" /\ lastOp.ok
    /\ lastOp.arg = "b"
    /\ lastOp.id \in DOMAIN label_names
    /\ \E k \in DOMAIN label_names : k # lastOp.id /\ label_names[k] = "a"
    /\ result_masks # <<>>

\* ------------------------------------------------------------ grow and shrink

\* The pixels a stored candidate covers once binarized.
MaskPixels(mask) == {p \in Pix : mask[p] > DefaultThreshold}

NextDisplay ==
    \/ ThreadAssignModel(1, "cpu")
    \/ ThreadEmitFinished(1)
    \/ ModelLoadingFinished
    \/ SetCurrentImage(1, "none", FALSE)
    \/ (shapes.types = <<>> /\ UserAddShape("point"))
    \/ \E multimask \in BOOLEAN :
          \E res \in Results(multimask) :
              /\ \A i \in DOMAIN res.masks : res.masks[i] \in ResultMasks
              /\ RunPrediction(multimask, res, TRUE, FALSE)
    \/ \E index \in 0..(MultiCands - 1) : UpdateSelectedMask(index)
    \/ \E operation_type \in {-1, 1} : AdjustMaskBoundary(operation_type)

SpecDisplay == Init /\ [][NextDisplay]_vars

\* C24 (as claimed): while there is a prediction result, the mask layer
\* shows the candidate at the selected index, the one that accept and save
\* take.
C24_DisplayedIsSelected ==
    result_masks # <<>>
        => /\ mask_layer.present
           /\ selected_mask_idx < Len(result_masks)
           /\ mask_layer.data = result_masks[selected_mask_idx + 1]

\* ------------------------------------------------------- the image index

\* C30 (as claimed): after folder imports and previous/next requests
\* current_image_index is -1 or an index into image_files; and 'previous' at
\* the first image, 'next' at the last one and a load of an index out of
\* range leave the index, the current image and the prediction result alone.
C30_ImageIndexValid ==
    [][/\ \/ current_image_index' = -1
          \/ (current_image_index' >= 0
              /\ current_image_index' < Len(image_files'))
       /\ (\/ lastOp'.name \in {"_load_prev_image", "_load_next_image"}
           \/ (lastOp'.name = "_load_image_by_index" /\ lastOp'.id = 0))
            => UNCHANGED <<current_image_index, current_image, result_masks,
                           result_scores, selected_mask_idx>>]_vars

\* ------------------------------------------------------ how a model load ends

\* A started worker thread runs on: it ends its construction of the wrapper
\* (with a model or with an exception), emits its signal and returns; the GUI
\* thread's event loop takes every queued signal.
FairLoad ==
    /\ \A i \in 1..MaxLoads :
          /\ WF_vars((\E d \in Devices : ThreadAssignModel(i, d))
                        \/ ThreadEmitError(i))
          /\ WF_vars(ThreadEmitFinished(i))
          /\ WF_vars(ThreadExit(i))
    /\ WF_vars(ModelLoadingFinished)
    /\ WF_vars(HandleError)

SpecLoadFair == Init /\ [][NextLoad]_vars /\ FairLoad

\* The worker threads that have emitted their signal.
EmittedThreads == {i \in DOMAIN threads : threads[i].st \in {"exiting", "dead"}}

\* C28: every load that starts ends, with one signal, finished or error, per
\* load, which is handled; the handler enables both load buttons;
\* model_loaded turns true only in the finished handler; and a load that
\* ends in error leaves model_loaded and the model as they were.
C28_LoadEndsWithOneSignal ==
    /\ \A i \in 1..MaxLoads :
          [](Len(threads) >= i
                => <>(Len(threads) >= i /\ threads[i].st = "dead"))
    /\ [](Len(signals) <= Cardinality(EmittedThreads))
    /\ [](threads # <<>>
            => <>(/\ signals = <<>>
                  /\ EmittedThreads = DOMAIN threads
                  /\ load_model_btn /\ load_custom_model_btn))
    /\ [][/\ Len(signals') > Len(signals)
              => /\ Len(signals') = Len(signals) + 1
                 /\ Cardinality(EmittedThreads') = Cardinality(EmittedThreads) + 1
          /\ (model_loaded' /\ ~model_loaded)
              => lastOp'.name = "_model_loading_finished"
          /\ lastOp'.name \in {"_model_loading_finished", "_handle_error"}
              => (Len(signals') = Len(signals) - 1
                  /\ load_model_btn' /\ load_custom_model_btn')
          /\ (lastOp'.name = "_handle_error"
              \/ (lastOp'.name = "_load_model_thread"
                  /\ lastOp'.arg = "emit_error"))
              => UNCHANGED <<model, model_loaded>>]_vars

\* A load ended in error after an earlier load had given a model: the error
\* was handled, the model and model_loaded are still there, the buttons are
\* enabled.
C28_Witness ==
    /\ lastOp.name = "_handle_error"
    /\ model_loaded
    /\ model.exists
    /\ signals = <<>>
    /\ load_model_btn /\ load_custom_model_btn

\* ---------------------------------------- a model reload with an image set

\* Loads, reloads (default and custom weights) and the set-image button,
\* with no library call failing.
NextReload ==
    \/ LoadModelAsync
    \/ LoadCustomModel(TRUE)
    \/ \E i \in 1..MaxLoads : ThreadAssignModel(i, "cpu")
    \/ \E i \in 1..MaxLoads : ThreadEmitFinished(i)
    \/ \E i \in 1..MaxLoads : ThreadExit(i)
    \/ ModelLoadingFinished
    \/ \E img \in Images : SetCurrentImage(img, "none", FALSE)

SpecReload == Init /\ [][NextReload]_vars

\* C23 (as claimed): whenever a prediction is permitted (model_loaded, and
\* the widget's current image set) the wrapper the widget refers to holds the
\* embedding of that image.
C23_PermittedPredictionHasEmbedding ==
    (model_loaded /\ current_image # 0)
        => /\ model.exists
           /\ model.image_embeddings = "True"
           /\ model.features = current_image

\* ------------------------------------------------- the auto-prediction timers

\* The shapes-data changes followed and the Shapes layers in the viewer.
MaxChanges == 3
NShapesLayers == 2

\* The widget fields and layer attributes the two handlers read, the clock
\* (time.time(), as the number of the tick it is in), the single-shot timers
\* pending, and what happened: changes counts the data events, scheduled
\* the changes that started a timer, ran the delayed predictions that got
\* as far as _run_prediction, each with the number of changes at that time.
DebounceCalls ==
    [fn : {"_on_shapes_data_changed"}, auto_predict_check : BOOLEAN,
     model_loaded : BOOLEAN, has_image : BOOLEAN,
     prediction_mode : {"points", "box"},
     rectangle_tool : BOOLEAN, complete_rectangles : BOOLEAN,
     now : {0}, last_changed_time : {[l \in 1..NShapesLayers |-> 0]},
     timers : {{}}, changes : {0}, scheduled : {{}}, ran : {<<>>}]

\* _on_shapes_data_changed for a data event of Shapes layer l; tick: the
\* clock has moved on to its next value since it was last read; rect: the
\* first layer holds a complete rectangle after the change.
ShapesDataChanged(l, tick, rect) ==
    LET c == lastCall
        current_time == c.now + (IF tick THEN 1 ELSE 0)
        seq == c.changes + 1
        marked == [c EXCEPT !.now = current_time,
                            !.last_changed_time[l] = current_time,
                            !.changes = seq,
                            !.complete_rectangles =
                                IF l = 1 THEN rect ELSE c.complete_rectangles]
        timer == [changed_time |-> current_time, seq |-> seq]
        started == [marked EXCEPT !.timers = @ \cup {timer},
                                  !.scheduled = @ \cup {seq}]
    IN
    /\ c.fn = "_on_shapes_data_changed"
    /\ c.changes < MaxChanges
    /\ lastCall' =
          IF c.auto_predict_check /\ c.model_loaded /\ c.has_image
          THEN IF c.prediction_mode = "points" THEN started
               ELSE IF ~c.rectangle_tool THEN marked
               ELSE IF ~marked.complete_rectangles THEN marked
               ELSE started
          ELSE marked
    /\ UNCHANGED model
    /\ UNCHANGED widgetVars

\* A pending timer fires: _delayed_prediction(changed_time), which looks at
\* the first Shapes layer of the viewer.
DelayedPrediction(timer) ==
    LET c == lastCall
        fired == [c EXCEPT !.timers = @ \ {timer}] IN
    /\ c.fn = "_on_shapes_data_changed"
    /\ timer \in c.timers
    /\ lastCall' =
          IF c.last_changed_time[1] # timer.changed_time THEN fired
          ELSE IF c.prediction_mode = "box" /\ ~c.complete_rectangles THEN fired
          ELSE [fired EXCEPT !.ran = Append(@, [seq |-> timer.seq,
                                               changes |-> c.changes])]
    /\ UNCHANGED model
    /\ UNCHANGED widgetVars

\* The user ticks or clears the auto-predict box.
ToggleAutoPredict ==
    /\ lastCall.fn = "_on_shapes_data_changed"
    /\ lastCall' = [lastCall EXCEPT !.auto_predict_check = ~@]
    /\ UNCHANGED model
    /\ UNCHANGED widgetVars

NextDebounce ==
    \/ \E l \in 1..NShapesLayers, tick \in BOOLEAN, rect \in BOOLEAN :
          ShapesDataChanged(l, tick, rect)
    \/ \E timer \in lastCall.timers : DelayedPrediction(timer)
    \/ ToggleAutoPredict

SpecDebounce == InitCall(DebounceCalls) /\ [][NextDebounce]_vars

\* C25 (as claimed): a delayed prediction runs only if no shapes-data change
\* came after the one that scheduled it, so that of a burst of changes only
\* the last leads to a prediction; and no timer was started while
\* auto-predict was off, the model not loaded or no image set.
C25_DebounceRunsLastChangeOnly ==
    /\ [](lastCall.fn = "_on_shapes_data_changed"
            => \A k \in DOMAIN lastCall.ran :
                  lastCall.ran[k].seq = lastCall.ran[k].changes)
    /\ [][(/\ lastCall.fn = "_on_shapes_data_changed"
           /\ lastCall'.scheduled # lastCall.scheduled)
            => /\ lastCall.auto_predict_check
               /\ lastCall.model_loaded
               /\ lastCall.has_image]_vars

\* ------------------------------------------------ the types of the points

\* The points a Shapes layer holds at most.
MaxPoints == 3

PointTypes == {0, 1}

\* A Shapes layer of points in point mode: data holds, for each point, the
\* point type that was active when it was added (what the point is, not a
\* field of the layer); features is the layer's features['point_type'];
\* point_type the widget's active type; labels what the last prediction sent.
PointTypeCalls ==
    [fn : {"_update_shape_features"}, data : {<<>>}, features : {<<>>},
     point_type : PointTypes, predicted : {FALSE}, labels : {<<>>}]

\* _update_shape_features in point mode: types are appended for the points
\* in excess of the recorded ones; nothing else is done.
update_shape_features(data, features, point_type) ==
    IF Len(features) # Len(data) /\ Len(data) > Len(features)
    THEN features \o [k \in 1..(Len(data) - Len(features)) |-> point_type]
    ELSE features

RemoveAt(s, k) == [j \in 1..(Len(s) - 1) |-> IF j < k THEN s[j] ELSE s[j + 1]]

\* The user adds a point: the layer's data event runs _update_shape_features.
AddPoint ==
    LET c == lastCall
        data == Append(c.data, c.point_type) IN
    /\ c.fn = "_update_shape_features"
    /\ Len(c.data) < MaxPoints
    /\ lastCall' = [c EXCEPT !.data = data,
                             !.features = update_shape_features(
                                              data, c.features, c.point_type)]
    /\ UNCHANGED model
    /\ UNCHANGED widgetVars

\* The user deletes the k-th point: the same data event.
DeletePoint(k) ==
    LET c == lastCall
        data == RemoveAt(c.data, k) IN
    /\ c.fn = "_update_shape_features"
    /\ k \in DOMAIN c.data
    /\ lastCall' = [c EXCEPT !.data = data,
                             !.features = update_shape_features(
                                              data, c.features, c.point_type)]
    /\ UNCHANGED model
    /\ UNCHANGED widgetVars

\* _set_positive_point, _set_negative_point, Shift pressed and released,
\* the two radio buttons.
SetPointType(t) ==
    /\ lastCall.fn = "_update_shape_features"
    /\ lastCall.point_type # t
    /\ lastCall' = [lastCall EXCEPT !.point_type = t]
    /\ UNCHANGED model
    /\ UNCHANGED widgetVars

\* shapes_to_points, the labels: those given if there is one per point,
\* else all foreground.
PointLabels(n, labels) ==
    IF Len(labels) > 0 /\ Len(labels) = n THEN labels ELSE [k \in 1..n |-> 1]

\* _predict_with_points: the recorded types if there is one per point, else
\* the active type for every point; the types used are written back.
PredictWithPoints ==
    LET c == lastCall
        n == Len(c.data)
        point_types == IF Len(c.features) = 0 \/ Len(c.features) # n
                       THEN [k \in 1..n |-> c.point_type]
                       ELSE c.features IN
    /\ c.fn = "_update_shape_features"
    /\ n > 0
    /\ lastCall' = [c EXCEPT !.predicted = TRUE,
                             !.labels = PointLabels(n, point_types),
                             !.features = point_types]
    /\ UNCHANGED model
    /\ UNCHANGED widgetVars

NextPointTypes ==
    \/ AddPoint
    \/ \E k \in 1..MaxPoints : DeletePoint(k)
    \/ \E t \in PointTypes : SetPointType(t)
    \/ PredictWithPoints

SpecPointTypes == InitCall(PointTypeCalls) /\ [][NextPointTypes]_vars

\* C26 (as claimed): the label a prediction in point mode sends for each point
\* is the point type that was active when the point was added, whatever
\* points were added or deleted and however the active type was switched
\* in between.
C26_LabelsAreTypesWhenAdded ==
    [][(lastCall.fn = "_update_shape_features" /\ PredictWithPoints)
          => lastCall'.labels = lastCall.data]_vars

\* ---------------------------------------------------------- the id counter

\* C27 (as claimed): while the label map is non-empty next_label_id is
\* greater than every id in it, so that the placeholder name made from the
\* counter is the name of no existing label.
C27_CounterAboveEveryId ==
    label_names # EmptyMap
        => /\ \A k \in DOMAIN label_names : next_label_id > k
           /\ \A k \in DOMAIN label_names :
                 label_names[k] # ObjName(next_label_id)

\* ------------------------------------------------------- saving twice

SaveRequests == {"_save_current_mask", "_save_all_masks"}

\* C29 (as claimed): a save request never writes a path that the save request
\* before it wrote: with the prefix, the image and the output directory left
\* as they are, the two sets of paths are disjoint.
C29_SavesNeverOverwrite ==
    [][(/\ lastOp.name \in SaveRequests /\ lastOp.ok
        /\ lastOp'.name \in SaveRequests /\ lastOp'.ok)
          => {lastOp.id[k] : k \in DOMAIN lastOp.id}
                \cap {lastOp'.id[k] : k \in DOMAIN lastOp'.id} = {}]_vars

====
